---- MODULE Spec2Model ----
(***************************************************************************)
(* Kirjastokaveri backend: the availability monitor                        *)
(* (app/services/availability_monitor.py), the user_books table it reads   *)
(* and writes together with the unified books routes that change that      *)
(* table (app/api/routes/books.py), and the process-local cache            *)
(* (app/core/cache.py).                                                    *)
(*                                                                         *)
(* Execution model: one asyncio event loop.  A coroutine runs without      *)
(* interruption between two awaits, so every action below is the code      *)
(* between two suspension points.  asyncio.to_thread bodies (_load_targets,*)
(* _persist_updates) are one database transaction each and are merged with *)
(* the synchronous continuation of the coroutine that awaits them.         *)
(***************************************************************************)
EXTENDS Integers, Sequences, FiniteSets, TLC

\* ------------------------------------------------------------------ bounds
MaxBooks == 2
MaxBatch == 2
MaxRuns == 2
MaxTime == 4
MaxCancels == 1
MaxTtl == 2
MaxSearches == 2
MaxEntries == 2
MaxReservations == 2
\* the lives of cache entries, in ticks of the model's clock
cache_ttl_seconds == 2
_COVER_CACHE_TTL_SECONDS == 3

\* ----------------------------------------------------------- optional values
None == <<>>
Some(v) == <<v>>
IsSome(o) == Len(o) = 1
Get(o) == o[1]

\* ------------------------------------------------------------------ strings
\* Status texts are sequences of characters so that str.lower() and the
\* substring tests of _is_available are computed, not assumed.
Lower(ch) ==
    CASE ch = "A" -> "a"
      [] ch = "B" -> "b"
      [] ch = "C" -> "c"
      [] ch = "D" -> "d"
      [] ch = "E" -> "e"
      [] ch = "F" -> "f"
      [] ch = "G" -> "g"
      [] ch = "H" -> "h"
      [] ch = "I" -> "i"
      [] ch = "J" -> "j"
      [] ch = "K" -> "k"
      [] ch = "L" -> "l"
      [] ch = "M" -> "m"
      [] ch = "N" -> "n"
      [] ch = "O" -> "o"
      [] ch = "P" -> "p"
      [] ch = "Q" -> "q"
      [] ch = "R" -> "r"
      [] ch = "S" -> "s"
      [] ch = "T" -> "t"
      [] ch = "U" -> "u"
      [] ch = "V" -> "v"
      [] ch = "W" -> "w"
      [] ch = "X" -> "x"
      [] ch = "Y" -> "y"
      [] ch = "Z" -> "z"
      [] OTHER -> ch

LowerStr(s) == [i \in 1..Len(s) |-> Lower(s[i])]

Contains(s, sub) ==
    \E i \in 0..(Len(s) - Len(sub)) :
        \A j \in 1..Len(sub) : s[i + j] = sub[j]

str_available == <<"a","v","a","i","l","a","b","l","e">>
str_unavailable == <<"u","n">> \o str_available
str_on_loan == <<"o","n"," ","l","o","a","n">>

StatusAvailable == <<"A","v","a","i","l","a","b","l","e">>
StatusOnLoan == <<"O","n"," ","L","o","a","n">>
StatusUnavailable == <<"U","n","a","v","a","i","l","a","b","l","e">>
StatusUnknown == <<"U","n","k","n","o","w","n">>

\* Parsed availability lists (AvailabilityResponse.items after model_dump)
\* the catalog may answer with for a record.
EntryLists ==
    { << [library |-> "Unknown", status |-> StatusUnknown] >>,
      << [library |-> "Oodi", status |-> StatusUnavailable],
         [library |-> "Pasila", status |-> StatusOnLoan] >>,
      << [library |-> "Oodi", status |-> StatusOnLoan],
         [library |-> "Pasila", status |-> StatusAvailable] >> }

\* ------------------------------------------------------------------- domains
BookIds == 1..MaxBooks
Users == {1}
\* the catalog record the k-th row is added for: a request names a record
\* that is not in the lists yet
RecordOf(k) == <<"finna", k>>
ListTypes == {"wishlist", "reading"}
Callers == {"scheduler", "manual"}
FetchErrors == {"timeout"}
LoadErrors == {"load_error"}
PersistErrors == {"commit_error"}

VARIABLES
    books,            \* user_books rows: book id -> row
    next_id,          \* next primary key of user_books
    recency,          \* ids of the rows, greatest updated_at first
    notifications,    \* notification rows inserted, counted per book id
    batch_size,       \* AvailabilityMonitorService._batch_size
    lock,             \* AvailabilityMonitorService._lock is held
    state,            \* AvailabilityMonitorService._state (AvailabilityJobState)
    pc,               \* per caller of run(): where its coroutine is suspended
    run,              \* per caller of run(): the locals of its coroutine
    outcome,          \* what the last call of run() gave its caller
    orphan,           \* _persist_updates thread left behind by a cancelled run
    now,              \* the clock (datetime.now, time.time)
    became_available, \* history: commits that took is_available FALSE -> TRUE
    runs_started,     \* history: calls of run() that took the lock
    cancels,          \* history: cancelled runs
    store,            \* MemoryCache._store
    set_log,          \* history: last set() per key
    get_result,       \* what the last MemoryCache.get returned
    redis_url,        \* settings.redis_url
    redis_lib,        \* the redis package was imported (redis is not None)
    cache_backend,    \* dependencies._cache_backend
    cache_backend_lock, \* dependencies._cache_backend_lock is held
    dep_pc,           \* per request: where its get_cache_backend is
    dep_result,       \* per request: the backend get_cache_backend returned
    backends,         \* history: the backends constructed, in order
    lifespan_pc,      \* where the lifespan of the application is
    lifespan_cache,   \* the local "cache" of lifespan
    closed,           \* history: the backends whose close() has returned
    key_log,          \* per request slot: the search parameters and their key
    sreq,             \* per search request: where search_books is, its locals
    parse_log,        \* the availability payload parsed last and its items
    snapshot,         \* what the last call of status() returned
    hit_log,          \* the entries judged last, their flag and their hit
    reservations,     \* reservations rows (legacy API): id -> row
    next_reservation_id, \* next primary key of reservations
    response,         \* what the last request to the list routes was answered
    calls             \* history: requests started, calls of service.search,
                      \* of _fetch_cover_with_cache and of fetch_cover_image

vars == << books, next_id, recency, notifications, batch_size, lock, state, pc,
           run, outcome, orphan, now, became_available,
           runs_started, cancels, store, set_log, get_result,
           redis_url, redis_lib, cache_backend, cache_backend_lock, dep_pc,
           dep_result, backends, lifespan_pc, lifespan_cache, closed, key_log,
           sreq, calls, parse_log, snapshot, hit_log, reservations,
           next_reservation_id, response >>

dbVars == << books, next_id, recency, notifications, became_available >>
monitorVars == << lock, state, pc, run, outcome, orphan, runs_started,
                  cancels >>
cacheVars == << store, set_log, get_result >>
backendVars == << redis_url, redis_lib, cache_backend, cache_backend_lock,
                 dep_pc, dep_result, backends, lifespan_pc, lifespan_cache,
                 closed >>
keyVars == << key_log >>
searchVars == << sreq, calls >>
parseVars == << parse_log >>
statusVars == << snapshot >>
hitVars == << hit_log >>
requestVars == << reservations, next_reservation_id, response >>
apiVars == << backendVars, keyVars, searchVars, parseVars, statusVars,
             hitVars, requestVars >>
notBackendVars == << dbVars, batch_size, monitorVars, now, cacheVars,
                    keyVars, searchVars, parseVars, statusVars, hitVars,
                    requestVars >>
notSearchVars == << dbVars, batch_size, monitorVars, set_log, get_result,
                   backendVars, keyVars, parseVars, statusVars, hitVars,
                   requestVars >>
notParseVars == << dbVars, batch_size, monitorVars, now, cacheVars,
                  backendVars, keyVars, searchVars, statusVars, hitVars,
                  requestVars >>
notRequestVars == << batch_size, monitorVars, now, cacheVars, backendVars,
                    keyVars, searchVars, parseVars, statusVars, hitVars >>


\* ------------------------------------------------------- sequence helpers
Range(s) == {s[i] : i \in 1..Len(s)}

RECURSIVE Without(_, _)
Without(s, x) ==
    IF s = <<>> THEN <<>>
    ELSE IF Head(s) = x THEN Without(Tail(s), x)
    ELSE <<Head(s)>> \o Without(Tail(s), x)

RECURSIVE Filter(_, _)
Filter(s, keep) ==
    IF s = <<>> THEN <<>>
    ELSE IF Head(s) \in keep THEN <<Head(s)>> \o Filter(Tail(s), keep)
    ELSE Filter(Tail(s), keep)

Take(s, n) == SubSeq(s, 1, IF n < Len(s) THEN n ELSE Len(s))

\* the orderings of a set of at most MaxBatch + 1 ids
Orderings(S) ==
    {q \in UNION {[1..n -> S] : n \in {Cardinality(S)}} : Range(q) = S}

\* ------------------------------------------------------------ the database
\* TimestampMixin: a row written by a commit gets the greatest updated_at.
Touch(order, b) == <<b>> \o Without(order, b)

RECURSIVE TouchAll(_, _)
TouchAll(order, bs) ==
    IF bs = <<>> THEN order
    ELSE TouchAll(Touch(order, bs[Len(bs)]), SubSeq(bs, 1, Len(bs) - 1))

NewBook(u, f, lt, notify, status) ==
    [ user_id |-> u, finna_id |-> f, list_type |-> lt,
      notify_on_available |-> notify, is_available |-> FALSE,
      status |-> status ]

\* User.is_active: register() creates users active and nothing clears it
is_active(u) == u \in Users

\* ReservationStatus
ReservationStatuses ==
    {"pending", "confirmed", "ready_for_pickup", "picked_up", "cancelled",
     "returned"}

\* books.py: _get_valid_status_transitions
_get_valid_status_transitions(current_status) ==
    IF current_status = None THEN ReservationStatuses
    ELSE CASE Get(current_status) = "pending" -> {"confirmed", "cancelled"}
           [] Get(current_status) = "confirmed" ->
                 {"ready_for_pickup", "cancelled"}
           [] Get(current_status) = "ready_for_pickup" ->
                 {"picked_up", "cancelled"}
           [] Get(current_status) = "picked_up" -> {"returned"}
           [] Get(current_status) = "returned" -> {}
           [] Get(current_status) = "cancelled" -> {}

\* the rows of user u for record f in list lt, other than row b
in_list(u, f, lt, b) ==
    {o \in DOMAIN books \ {b} :
        /\ books[o].user_id = u
        /\ books[o].finna_id = f
        /\ books[o].list_type = lt}

\* POST /books: the status of its answer
add_book_response(u, f, lt) ==
    IF in_list(u, f, lt, 0) # {} THEN 409 ELSE 201

\* POST /books
add_book(u, f, lt, notify, status) ==
    /\ next_id <= MaxBooks
    /\ ~ \E b \in DOMAIN books :
            /\ books[b].user_id = u
            /\ books[b].finna_id = f
            /\ books[b].list_type = lt
    /\ books' = [b \in DOMAIN books \cup {next_id} |->
                    IF b = next_id THEN NewBook(u, f, lt, notify, status)
                    ELSE books[b]]
    /\ next_id' = next_id + 1
    /\ recency' = Touch(recency, next_id)
    /\ UNCHANGED << notifications, became_available >>

\* the test of the status in update_book: lines 208-215
status_checked(row) == row.list_type = "reserved"

\* PATCH /books/{book_id}: the status of its answer.  A status of null in
\* the body of a reserved row fails the test and then the f-string of the
\* error ("new_status.value"): the request is answered 500.
update_book_response(b, set_lt, lt, set_status, new_status) ==
    IF b \notin DOMAIN books THEN 404
    ELSE IF /\ set_lt
            /\ lt # books[b].list_type
            /\ in_list(books[b].user_id, books[b].finna_id, lt, b) # {}
    THEN 409
    ELSE IF set_status /\ status_checked(books[b])
    THEN IF new_status = None THEN 500
         ELSE IF Get(new_status)
                    \notin _get_valid_status_transitions(books[b].status)
         THEN 400 ELSE 200
    ELSE 200

\* PATCH /books/{book_id}: update_data holds list_type, notify_on_available
\* and/or status (set_lt, set_notify, set_status say which), and other
\* columns (other) such as user_notes.
update_book(b, set_lt, lt, set_notify, notify, set_status, new_status, other) ==
    /\ b \in DOMAIN books
    /\ set_lt \/ set_notify \/ set_status \/ other
    /\ (set_lt /\ lt # books[b].list_type) =>
          ~ \E o \in DOMAIN books :
               /\ o # b
               /\ books[o].user_id = books[b].user_id
               /\ books[o].finna_id = books[b].finna_id
               /\ books[o].list_type = lt
    /\ (set_status /\ status_checked(books[b])) =>
          /\ new_status # None
          /\ Get(new_status) \in _get_valid_status_transitions(books[b].status)
    /\ LET row == [books[b] EXCEPT
                      !.list_type = IF set_lt THEN lt ELSE @,
                      !.notify_on_available = IF set_notify THEN notify ELSE @,
                      !.status = IF set_status THEN new_status ELSE @]
       IN /\ books' = [books EXCEPT ![b] = row]
          /\ recency' = IF other \/ row # books[b] THEN Touch(recency, b)
                        ELSE recency
    /\ UNCHANGED << next_id, notifications, became_available >>

\* the test of remove_book: lines 253-260
completed_reservation(row) ==
    /\ row.list_type = "reserved"
    /\ row.status \in {Some("picked_up"), Some("returned")}

\* DELETE /books/{book_id}: the status of its answer
remove_book_response(b) ==
    IF b \notin DOMAIN books THEN 404
    ELSE IF completed_reservation(books[b]) THEN 400
    ELSE 204

\* DELETE /books/{book_id}
remove_book(b) ==
    /\ b \in DOMAIN books
    /\ ~ completed_reservation(books[b])
    /\ books' = [o \in DOMAIN books \ {b} |-> books[o]]
    /\ recency' = Without(recency, b)
    /\ UNCHANGED << next_id, notifications, became_available >>

\* DELETE /books?list=...: the rows the query of clear_list finds
cleared(u, lt) ==
    {b \in DOMAIN books : books[b].user_id = u /\ books[b].list_type = lt}

\* DELETE /books?list=...
clear_list(u, lt) ==
    /\ books' = [o \in DOMAIN books \ cleared(u, lt) |-> books[o]]
    /\ recency' = Filter(recency, DOMAIN books \ cleared(u, lt))
    /\ UNCHANGED << next_id, notifications, became_available >>

\* ---------------------------------------------- the legacy reservations API
\* reservations.py: _get_valid_transitions
_get_valid_transitions(current_status) ==
    CASE current_status = "pending" -> {"confirmed", "cancelled"}
      [] current_status = "confirmed" -> {"ready_for_pickup", "cancelled"}
      [] current_status = "ready_for_pickup" -> {"picked_up", "cancelled"}
      [] current_status = "picked_up" -> {"returned"}
      [] current_status = "returned" -> {}
      [] current_status = "cancelled" -> {}
      [] OTHER -> {}

\* the active reservations of user u for record f
active_reservations(u, f) ==
    {r \in DOMAIN reservations :
        /\ reservations[r].user_id = u
        /\ reservations[r].finna_id = f
        /\ reservations[r].status
              \in {"pending", "confirmed", "ready_for_pickup"}}

\* POST /reservations: the status of its answer
create_reservation_response(u, f) ==
    IF active_reservations(u, f) # {} THEN 409 ELSE 201

\* POST /reservations
create_reservation(u, f) ==
    /\ next_reservation_id <= MaxReservations
    /\ active_reservations(u, f) = {}
    /\ reservations' =
          [r \in DOMAIN reservations \cup {next_reservation_id} |->
              IF r = next_reservation_id
              THEN [user_id |-> u, finna_id |-> f, status |-> "pending"]
              ELSE reservations[r]]
    /\ next_reservation_id' = next_reservation_id + 1

\* PATCH /reservations/{reservation_id}: the status of its answer
update_reservation_response(r, set_status, new_status) ==
    IF r \notin DOMAIN reservations THEN 404
    ELSE IF set_status
    THEN IF new_status = None THEN 500
         ELSE IF Get(new_status)
                    \notin _get_valid_transitions(reservations[r].status)
         THEN 400 ELSE 200
    ELSE 200

\* PATCH /reservations/{reservation_id}
update_reservation(r, set_status, new_status) ==
    /\ r \in DOMAIN reservations
    /\ set_status =>
          /\ new_status # None
          /\ Get(new_status) \in _get_valid_transitions(reservations[r].status)
    /\ reservations' =
          [reservations EXCEPT ![r].status =
              IF set_status THEN Get(new_status) ELSE @]
    /\ UNCHANGED next_reservation_id

\* DELETE /reservations/{reservation_id}: the status of its answer
cancel_reservation_response(r) ==
    IF r \notin DOMAIN reservations THEN 404
    ELSE IF reservations[r].status \in {"picked_up", "returned"} THEN 400
    ELSE 204

\* DELETE /reservations/{reservation_id}
cancel_reservation(r) ==
    /\ r \in DOMAIN reservations
    /\ reservations[r].status \notin {"picked_up", "returned"}
    /\ reservations' = [o \in DOMAIN reservations \ {r} |-> reservations[o]]
    /\ UNCHANGED next_reservation_id


\* ------------------------------------------------- the availability monitor
\* AvailabilityJobState()
InitialJobState ==
    [ last_started_at |-> None, last_completed_at |-> None,
      last_success_at |-> None, last_error_at |-> None,
      last_error_message |-> None, last_duration_seconds |-> None,
      last_result |-> None ]

\* the locals of a run() coroutine that is not running
IdleRun ==
    [ start_time |-> 0, collect_now |-> 0, targets |-> <<>>, idx |-> 0,
      updates |-> <<>>, errors |-> <<>> ]

\* a returned result is the object run() stored in last_result
NoOutcome == [ kind |-> "none", exc |-> None ]

\* datetime.now(timezone.utc): two readings of one task are separated by
\* an await of I/O, so a reading is later than the one before it
Clock == {now + 1}

\* status()
status_mutant ==
    [ running |-> lock, state |-> InitialJobState ]
status ==
    [ running |-> lock, state |-> state ]

\* self._lock.locked(), as run() tests it before "async with self._lock"
locked_mutant == FALSE
locked == lock

\* __aexit__ of "async with self._lock": released however the block is left
lock_after_exit_mutant(how) == how # "returned"
lock_after_exit(how) == FALSE

\* the filter of _load_targets
Eligible(bks, b) ==
    /\ b \in DOMAIN bks
    /\ is_active(bks[b].user_id)
    /\ bks[b].list_type = "wishlist"
    /\ bks[b].notify_on_available

WishlistTarget(bks, b) ==
    [ id |-> b, user_id |-> bks[b].user_id, finna_id |-> bks[b].finna_id,
      is_available |-> bks[b].is_available ]

\* _load_targets: order_by(updated_at.desc()).limit(batch_size)
_load_targets(bks, order, n) ==
    LET ids == Take(Filter(order, {b \in DOMAIN bks : Eligible(bks, b)}), n)
    IN [i \in 1..Len(ids) |-> WishlistTarget(bks, ids[i])]

\* _is_available
_is_available_mutant(entries) ==
    \E i \in 1..Len(entries) :
        LET st == LowerStr(entries[i].status)
        IN /\ Contains(st, str_available)
           /\ ~ Contains(st, str_on_loan)
_is_available(entries) ==
    \E i \in 1..Len(entries) :
        LET st == LowerStr(entries[i].status)
        IN /\ Contains(st, str_available)
           /\ ~ Contains(st, str_unavailable)
           /\ ~ Contains(st, str_on_loan)

\* the code point of a character of the model's texts
ord(ch) ==
    CASE ch = " " -> 32
      [] ch = "," -> 44
      [] ch = "A" -> 65
      [] ch = "B" -> 66
      [] ch = "D" -> 68
      [] ch = "E" -> 69
      [] ch = "I" -> 73
      [] ch = "K" -> 75
      [] ch = "L" -> 76
      [] ch = "N" -> 78
      [] ch = "O" -> 79
      [] ch = "P" -> 80
      [] ch = "U" -> 85
      [] ch = "V" -> 86
      [] ch = "a" -> 97
      [] ch = "b" -> 98
      [] ch = "d" -> 100
      [] ch = "e" -> 101
      [] ch = "i" -> 105
      [] ch = "k" -> 107
      [] ch = "l" -> 108
      [] ch = "n" -> 110
      [] ch = "o" -> 111
      [] ch = "s" -> 115
      [] ch = "t" -> 116
      [] ch = "v" -> 118
      [] OTHER -> 0

\* a < b for two str: by code point, a proper prefix first
RECURSIVE str_less(_, _)
str_less(a, b) ==
    IF b = <<>> THEN FALSE
    ELSE IF a = <<>> THEN TRUE
    ELSE IF ord(Head(a)) # ord(Head(b)) THEN ord(Head(a)) < ord(Head(b))
    ELSE str_less(Tail(a), Tail(b))

\* the filter of _select_preferred_hit: lines 339-344
available_entry(entry) ==
    LET st == LowerStr(entry.status)
    IN /\ Contains(st, str_available)
       /\ ~ Contains(st, str_unavailable)
       /\ ~ Contains(st, str_on_loan)

RECURSIVE available_entries(_)
available_entries(entries) ==
    IF entries = <<>> THEN <<>>
    ELSE IF available_entry(Head(entries))
    THEN <<Head(entries)>> \o available_entries(Tail(entries))
    ELSE available_entries(Tail(entries))

\* _score: (match_score, status)
_score_mutant(entry, preferred_library) == <<0, entry.status>>
_score(entry, preferred_library) ==
    LET library == LowerStr(entry.library)
        match_score ==
            IF /\ preferred_library # None
               /\ Get(preferred_library) # <<>>
               /\ Contains(library, LowerStr(Get(preferred_library)))
            THEN 1 ELSE 0
    IN <<match_score, entry.status>>

\* s < t for two scores, as tuples compare
score_less(s, t) == s[1] < t[1] \/ (s[1] = t[1] /\ str_less(s[2], t[2]))

\* max(entries, key=_score) with best the maximum so far: a later entry
\* replaces it only when its score is greater
RECURSIVE max_by_score(_, _, _)
max_by_score(best, entries, preferred_library) ==
    IF entries = <<>> THEN best
    ELSE IF score_less(_score(best, preferred_library),
                       _score(Head(entries), preferred_library))
    THEN max_by_score(Head(entries), Tail(entries), preferred_library)
    ELSE max_by_score(best, Tail(entries), preferred_library)

\* _select_preferred_hit
_select_preferred_hit(entries, preferred_library) ==
    LET av == available_entries(entries)
    IN IF av = <<>> THEN None
       ELSE Some(max_by_score(Head(av), Tail(av), preferred_library))

\* should_notify = available and not target.is_available
should_notify_mutant(available, target) == available
should_notify(available, target) == available /\ ~ target.is_available

\* f"Failed to fetch availability for {target.finna_id}: {exc}"; the model
\* keeps the id of the target beside the text
ErrorMessage(target, exc) ==
    [ id |-> target.id, finna_id |-> target.finna_id, exc |-> exc ]

\* the AvailabilityUpdate _collect_updates appends for a fetched target
\* (availability_payload and preferred_hit only feed the columns and the
\* text of the notification, which the tables of the model do not hold)
AvailabilityUpdate(target, entries, checked_at) ==
    LET available == _is_available(entries)
    IN [ target |-> target, available |-> available,
         checked_at |-> checked_at,
         notify |-> should_notify(available, target) ]

\* _persist_updates: item_index and the rows the query finds
item_index(updates) ==
    [b \in {updates[i].target.id : i \in 1..Len(updates)} |->
        updates[CHOOSE i \in 1..Len(updates) : updates[i].target.id = b]]

db_items(bks, updates) == DOMAIN bks \cap DOMAIN item_index(updates)

persist_books(bks, updates) ==
    [b \in DOMAIN bks |->
        IF b \in db_items(bks, updates)
        THEN [bks[b] EXCEPT
                 !.is_available = item_index(updates)[b].available]
        ELSE bks[b]]

notified_mutant(bks, updates) == {}
notified(bks, updates) ==
    {b \in db_items(bks, updates) : item_index(updates)[b].notify}

persist_notifications(ntf, bks, updates) ==
    [b \in DOMAIN ntf |->
        IF b \in notified(bks, updates) THEN ntf[b] + 1 ELSE ntf[b]]

\* a unit of work that ends without commit: the session rolls back
rolled_back(bks, updates) == bks

\* history: the commits that took a row's is_available from FALSE to TRUE
CountBecameAvailable(old, new) ==
    [b \in DOMAIN became_available |->
        IF /\ b \in DOMAIN old
           /\ b \in DOMAIN new
           /\ ~ old[b].is_available
           /\ new[b].is_available
        THEN became_available[b] + 1 ELSE became_available[b]]

\* session.commit() of _persist_updates, with the rows it wrote stamped in
\* some order
Commit(updates) ==
    /\ books' = persist_books(books, updates)
    /\ notifications' = persist_notifications(notifications, books, updates)
    /\ became_available' = CountBecameAvailable(books, books')
    /\ \E q \in Orderings(db_items(books, updates)) :
           recency' = TouchAll(recency, q)
    /\ UNCHANGED next_id

\* the success branch of run(): lines 154-171
state_on_success_mutant(st, start_time, end_time, result) ==
    [ st EXCEPT !.last_completed_at = Some(end_time),
                !.last_success_at = Some(end_time),
                !.last_duration_seconds = Some(end_time - start_time),
                !.last_result = Some(result) ]
state_on_success(st, start_time, end_time, result) ==
    [ st EXCEPT !.last_completed_at = Some(end_time),
                !.last_success_at = Some(end_time),
                !.last_duration_seconds = Some(end_time - start_time),
                !.last_result = Some(result),
                !.last_error_at = None,
                !.last_error_message = None ]

\* the except branch of run(): lines 173-180
state_on_error_mutant(st, start_time, end_time, exc) == st
state_on_error(st, start_time, end_time, exc) ==
    [ st EXCEPT !.last_completed_at = Some(end_time),
                !.last_error_at = Some(end_time),
                !.last_duration_seconds = Some(end_time - start_time),
                !.last_error_message = Some(exc) ]

AvailabilityJobResult_mutant(r, updated_count, notifications_created) ==
    [ items_checked |-> Len(r.targets) - Len(r.errors),
      updates_persisted |-> updated_count,
      notifications_created |-> notifications_created,
      errors |-> r.errors ]
AvailabilityJobResult(r, updated_count, notifications_created) ==
    [ items_checked |-> Len(r.targets),
      updates_persisted |-> updated_count,
      notifications_created |-> notifications_created,
      errors |-> r.errors ]

\* run() returns its result
Succeed(c, r, updated_count, notifications_created) ==
    LET result == AvailabilityJobResult(r, updated_count, notifications_created)
    IN /\ \E end_time \in Clock :
              /\ now' = end_time
              /\ state' = state_on_success(state, r.start_time, end_time, result)
       /\ lock' = lock_after_exit("returned")
       /\ pc' = [pc EXCEPT ![c] = "idle"]
       /\ run' = [run EXCEPT ![c] = IdleRun]
       /\ outcome' = [kind |-> "returned", exc |-> None]

\* run() records the failure and re-raises
Fail(c, r, exc) ==
    /\ \E end_time \in Clock :
           /\ now' = end_time
           /\ state' = state_on_error(state, r.start_time, end_time, exc)
    /\ lock' = lock_after_exit("raised")
    /\ pc' = [pc EXCEPT ![c] = "idle"]
    /\ run' = [run EXCEPT ![c] = IdleRun]
    /\ outcome' = [kind |-> "raised", exc |-> Some(exc)]

\* _collect_updates has gone through every target
AfterCollect(c, r) ==
    IF r.updates # <<>>
    THEN /\ pc' = [pc EXCEPT ![c] = "persisting"]
         /\ run' = [run EXCEPT ![c] = r]
         /\ UNCHANGED << lock, state, outcome, now >>
    ELSE Succeed(c, r, 0, 0)

\* the for loop of _collect_updates moves on: the next await, or the end
NextTarget(c, r) ==
    IF r.idx < Len(r.targets)
    THEN /\ run' = [run EXCEPT ![c] = [r EXCEPT !.idx = @ + 1]]
         /\ UNCHANGED << lock, state, pc, outcome, now >>
    ELSE AfterCollect(c, r)

\* run() is called and the lock is free: up to the await of _load_targets
RunStart(c) ==
    /\ pc[c] = "idle"
    /\ ~ locked
    /\ runs_started < MaxRuns
    /\ lock' = TRUE
    /\ \E start_time \in Clock :
           /\ now' = start_time
           /\ state' = [state EXCEPT !.last_started_at = Some(start_time)]
           /\ run' = [run EXCEPT ![c] =
                 [IdleRun EXCEPT !.start_time = start_time,
                                 !.collect_now = start_time]]
    /\ pc' = [pc EXCEPT ![c] = "loading"]
    /\ outcome' = NoOutcome
    /\ runs_started' = runs_started + 1
    /\ UNCHANGED << dbVars, batch_size, orphan, cancels,
                    cacheVars, apiVars >>

\* run() is called while the lock is held: JobAlreadyRunningError
RunRejected(c) ==
    /\ pc[c] = "idle"
    /\ locked
    /\ outcome' = [kind |-> "already_running", exc |-> None]
    /\ UNCHANGED << dbVars, batch_size, lock, state, pc, run, orphan, now,
                    runs_started, cancels, cacheVars, apiVars >>

\* _load_targets returns
LoadTargets(c) ==
    /\ pc[c] = "loading"
    /\ LET targets == _load_targets(books, recency, batch_size)
           r == [run[c] EXCEPT !.targets = targets, !.idx = 1]
       IN IF targets = <<>>
          THEN Succeed(c, r, 0, 0)
          ELSE /\ pc' = [pc EXCEPT ![c] = "fetching"]
               /\ run' = [run EXCEPT ![c] = r]
               /\ UNCHANGED << lock, state, outcome, now >>
    /\ UNCHANGED << dbVars, batch_size, orphan, runs_started, cancels,
                    cacheVars, apiVars >>

\* _load_targets raises
LoadTargetsFail(c, exc) ==
    /\ pc[c] = "loading"
    /\ Fail(c, run[c], exc)
    /\ UNCHANGED << dbVars, batch_size, orphan, runs_started, cancels,
                    cacheVars, apiVars >>

\* the awaited availability() of target idx answers and is parsed
FetchOk(c, entries) ==
    /\ pc[c] = "fetching"
    /\ LET r == run[c]
           u == AvailabilityUpdate(r.targets[r.idx], entries, r.collect_now)
       IN NextTarget(c, [r EXCEPT !.updates = Append(@, u)])
    /\ UNCHANGED << dbVars, batch_size, orphan, runs_started, cancels,
                    cacheVars, apiVars >>

\* the awaited availability() of target idx (or its parsing) raises
FetchFail(c, exc) ==
    /\ pc[c] = "fetching"
    /\ LET r == run[c]
           t == r.targets[r.idx]
       IN NextTarget(c, [r EXCEPT !.errors = Append(@, ErrorMessage(t, exc))])
    /\ UNCHANGED << dbVars, batch_size, orphan, runs_started, cancels,
                    cacheVars, apiVars >>

\* _persist_updates commits and run() finishes
PersistOk(c) ==
    /\ pc[c] = "persisting"
    /\ Commit(run[c].updates)
    /\ Succeed(c, run[c],
               Cardinality(db_items(books, run[c].updates)),
               Cardinality(notified(books, run[c].updates)))
    /\ UNCHANGED << batch_size, orphan, runs_started, cancels, cacheVars, apiVars >>

\* _persist_updates raises: nothing of the unit of work is committed
PersistFail(c, exc) ==
    /\ pc[c] = "persisting"
    /\ books' = rolled_back(books, run[c].updates)
    /\ Fail(c, run[c], exc)
    /\ UNCHANGED << next_id, recency, notifications, became_available,
                    batch_size, orphan, runs_started, cancels, cacheVars, apiVars >>

\* the task running run() is cancelled at its await: CancelledError is no
\* Exception, so only the lock is released; a _persist_updates thread that
\* was awaited keeps running
Cancel(c) ==
    /\ pc[c] # "idle"
    /\ cancels < MaxCancels
    /\ lock' = lock_after_exit("cancelled")
    /\ pc' = [pc EXCEPT ![c] = "idle"]
    /\ run' = [run EXCEPT ![c] = IdleRun]
    /\ outcome' = [kind |-> "cancelled", exc |-> None]
    /\ orphan' = IF pc[c] = "persisting"
                 THEN Append(orphan, run[c].updates) ELSE orphan
    /\ cancels' = cancels + 1
    /\ UNCHANGED << dbVars, batch_size, state, now, runs_started, cacheVars, apiVars >>

\* the thread of a cancelled run commits
OrphanCommit ==
    /\ orphan # <<>>
    /\ Commit(Head(orphan))
    /\ orphan' = Tail(orphan)
    /\ UNCHANGED << batch_size, lock, state, pc, run, outcome, now,
                    runs_started, cancels, cacheVars, apiVars >>

\* the thread of a cancelled run fails
OrphanFail ==
    /\ orphan # <<>>
    /\ books' = rolled_back(books, Head(orphan))
    /\ orphan' = Tail(orphan)
    /\ UNCHANGED << next_id, recency, notifications, became_available,
                    batch_size, lock, state, pc, run, outcome, now,
                    runs_started, cancels, cacheVars, apiVars >>

\* a caller on the event loop asks for status() between two steps of the
\* other tasks
StatusCall ==
    /\ snapshot' = Some(status)
    /\ UNCHANGED << dbVars, batch_size, monitorVars, now, cacheVars,
                    backendVars, keyVars, searchVars, parseVars, hitVars,
                    requestVars >>

\* the status texts and library names the judged entries are made of
HitStatuses ==
    { <<"A","v","a","i","l","a","b","l","e">>, <<"A","V","A","I","L","A","B","L","E">>,
      <<"U","n","a","v","a","i","l","a","b","l","e">>, <<"O","n"," ","L","o","a","n">>, <<>>,
      <<"N","o","t"," ","a","v","a","i","l","a","b","l","e">>,
      <<"A","v","a","i","l","a","b","l","e",","," ","O","N"," ","L","O","A","N">> }
HitLibraries == { <<"O","o","d","i">>, <<"P","a","s","i","l","a">>, <<"O","O","D","I"," ","2">> }
HitEntries == [library : HitLibraries, status : HitStatuses]
PreferredLibraries ==
    { None, Some(<<>>), Some(<<"o","o","d","i">>), Some(<<"O","o","d","i">>), Some(<<"K","a","l","l","i","o">>) }

\* the body of the loop of _collect_updates for the parsed entries of one
\* target: lines 203-208
JudgeEntries(entries, preferred_library_name) ==
    /\ hit_log = None
    /\ hit_log' = Some([ entries |-> entries,
                         preferred_library_name |-> preferred_library_name,
                         available |-> _is_available(entries),
                         preferred_hit |->
                            _select_preferred_hit(entries,
                                                  preferred_library_name) ])
    /\ UNCHANGED << dbVars, batch_size, monitorVars, now, cacheVars,
                    backendVars, keyVars, searchVars, parseVars, statusVars,
                    requestVars >>

\* ------------------------------------------------------------ MemoryCache
CacheKeys == {"search:a", "search:b"}
CacheValues == {"v1", "v2"}
Ttls == 0..MaxTtl

\* CacheEntry(value=value, expires_at=time.time() + ttl_seconds)
CacheEntry(value, t, ttl_seconds) ==
    [ value |-> value, expires_at |-> t + ttl_seconds ]

\* the test of MemoryCache.get: entry.expires_at <= time.time()
expired_mutant(entry, t) == entry.expires_at < t
expired(entry, t) == entry.expires_at <= t

\* what MemoryCache.get returns at time t
cache_get(st, key, t) ==
    IF key \notin DOMAIN st THEN None
    ELSE IF expired(st[key], t) THEN None
    ELSE Some(st[key].value)

\* the store MemoryCache.get leaves: an expired entry is popped
cache_get_store(st, key, t) ==
    IF key \in DOMAIN st /\ expired(st[key], t)
    THEN [k \in DOMAIN st \ {key} |-> st[k]]
    ELSE st

\* the store MemoryCache.set leaves
cache_set(st, key, value, ttl_seconds, t) ==
    [k \in DOMAIN st \cup {key} |->
        IF k = key THEN CacheEntry(value, t, ttl_seconds) ELSE st[k]]

\* no get() has returned since the last set()
NoGet == [ key |-> None, value |-> None, at |-> 0 ]

\* await cache.set(key, value, ttl_seconds)
CacheSet(key, value, ttl_seconds) ==
    /\ store' = cache_set(store, key, value, ttl_seconds, now)
    /\ set_log' = [k \in DOMAIN set_log \cup {key} |->
                      IF k = key
                      THEN [value |-> value, at |-> now, ttl |-> ttl_seconds]
                      ELSE set_log[k]]
    /\ get_result' = NoGet
    /\ UNCHANGED << dbVars, batch_size, monitorVars, now, apiVars >>

\* await cache.get(key)
CacheGet(key) ==
    /\ get_result' = [ key |-> Some(key), value |-> cache_get(store, key, now),
                       at |-> now ]
    /\ store' = cache_get_store(store, key, now)
    /\ UNCHANGED << dbVars, batch_size, monitorVars, now, set_log, apiVars >>

\* time passes
Tick ==
    /\ now < MaxTime
    /\ now' = now + 1
    /\ UNCHANGED << dbVars, batch_size, monitorVars, cacheVars, apiVars >>

\* ------------------------------------------------- the cache backend slot
Requests == {"r1", "r2", "r3"}
RedisUrls == {None, Some(""), Some("cache:6379"), Some("redis://cache:6379")}
ProbeOutcomes == {"pong", "connection_error", "timeout"}

\* "if redis_url" of create_cache_backend
truthy(url) == IsSome(url) /\ Get(url) # ""

\* redis.from_url(redis_url, ...) returns a client: the scheme is one it knows
from_url_ok(url) == Get(url) = "redis://cache:6379"

\* create_cache_backend gets as far as "await client.ping()"
pings(url, lib) == truthy(url) /\ lib /\ from_url_ok(url)

\* create_cache_backend: what it returns, given how the probe ended
\* ("none": no ping was made)
create_cache_backend_mutant(url, lib, probe) ==
    IF truthy(url) /\ lib
    THEN IF probe = "pong" THEN "RedisCache" ELSE "raised"
    ELSE "MemoryCache"
create_cache_backend(url, lib, probe) ==
    IF truthy(url) /\ lib /\ probe = "pong" THEN "RedisCache"
    ELSE "MemoryCache"

\* a backend object: the one constructed after those in bs
Backend(bs, kind, by, probe) ==
    Append(bs, [kind |-> kind, by |-> by, probe |-> probe])

\* lifespan, startup: "cache = await create_cache_backend(...)" is entered
LifespanStart ==
    /\ lifespan_pc = "init"
    /\ IF pings(redis_url, redis_lib)
       THEN /\ lifespan_pc' = "probing"
            /\ UNCHANGED << backends, lifespan_cache >>
       ELSE LET kind == create_cache_backend(redis_url, redis_lib, "none")
            IN /\ backends' = Backend(backends, kind, "lifespan", "none")
               /\ lifespan_cache' = Some(Len(backends'))
               /\ lifespan_pc' = "serving"
    /\ UNCHANGED << notBackendVars, closed,
                    redis_url, redis_lib, cache_backend, cache_backend_lock,
                    dep_pc, dep_result >>

\* lifespan, startup: the ping of create_cache_backend ends
LifespanProbe(probe) ==
    /\ lifespan_pc = "probing"
    /\ LET kind == create_cache_backend(redis_url, redis_lib, probe)
       IN IF kind = "raised"
          THEN /\ lifespan_pc' = "failed"
               /\ UNCHANGED << backends, lifespan_cache >>
          ELSE /\ backends' = Backend(backends, kind, "lifespan", probe)
               /\ lifespan_cache' = Some(Len(backends'))
               /\ lifespan_pc' = "serving"
    /\ UNCHANGED << notBackendVars, closed,
                    redis_url, redis_lib, cache_backend, cache_backend_lock,
                    dep_pc, dep_result >>

\* get_cache_backend holds the lock (or found it free) and tests the slot
\* again: lines 24-26
UnderLock(r) ==
    IF cache_backend # None
    THEN /\ cache_backend_lock' = FALSE
         /\ dep_result' = [dep_result EXCEPT ![r] = cache_backend]
         /\ dep_pc' = [dep_pc EXCEPT ![r] = "done"]
         /\ UNCHANGED << cache_backend, backends >>
    ELSE IF pings(redis_url, redis_lib)
    THEN /\ cache_backend_lock' = TRUE
         /\ dep_pc' = [dep_pc EXCEPT ![r] = "probing"]
         /\ UNCHANGED << cache_backend, backends, dep_result >>
    ELSE LET kind == create_cache_backend(redis_url, redis_lib, "none")
         IN /\ backends' = Backend(backends, kind, r, "none")
            /\ cache_backend' = Some(Len(backends'))
            /\ cache_backend_lock' = FALSE
            /\ dep_result' = [dep_result EXCEPT ![r] = cache_backend']
            /\ dep_pc' = [dep_pc EXCEPT ![r] = "done"]

\* a request resolves its dependency: get_cache_backend up to its first
\* suspension
GetCacheBackend(r) ==
    /\ lifespan_pc = "serving"
    /\ dep_pc[r] = "idle"
    /\ IF cache_backend # None
       THEN /\ dep_result' = [dep_result EXCEPT ![r] = cache_backend]
            /\ dep_pc' = [dep_pc EXCEPT ![r] = "done"]
            /\ UNCHANGED << cache_backend, cache_backend_lock, backends >>
       ELSE IF cache_backend_lock
       THEN /\ dep_pc' = [dep_pc EXCEPT ![r] = "waiting"]
            /\ UNCHANGED << cache_backend, cache_backend_lock, backends,
                            dep_result >>
       ELSE UnderLock(r)
    /\ UNCHANGED << notBackendVars, closed,
                    redis_url, redis_lib, lifespan_pc, lifespan_cache >>

\* a request that waited at "async with _cache_backend_lock" gets the lock
LockAcquired(r) ==
    /\ dep_pc[r] = "waiting"
    /\ ~ cache_backend_lock
    /\ UnderLock(r)
    /\ UNCHANGED << notBackendVars, closed,
                    redis_url, redis_lib, lifespan_pc, lifespan_cache >>

\* the ping of the create_cache_backend a request awaits ends: line 25
DepProbe(r, probe) ==
    /\ dep_pc[r] = "probing"
    /\ cache_backend_lock' = FALSE
    /\ LET kind == create_cache_backend(redis_url, redis_lib, probe)
       IN IF kind = "raised"
          THEN /\ dep_pc' = [dep_pc EXCEPT ![r] = "failed"]
               /\ UNCHANGED << cache_backend, backends, dep_result >>
          ELSE /\ backends' = Backend(backends, kind, r, probe)
               /\ cache_backend' = Some(Len(backends'))
               /\ dep_result' = [dep_result EXCEPT ![r] = cache_backend']
               /\ dep_pc' = [dep_pc EXCEPT ![r] = "done"]
    /\ UNCHANGED << notBackendVars, closed,
                    redis_url, redis_lib, lifespan_pc, lifespan_cache >>

\* the request that got its backend (or an error) is answered
RequestEnd(r) ==
    /\ dep_pc[r] \in {"done", "failed"}
    /\ dep_pc' = [dep_pc EXCEPT ![r] = "idle"]
    /\ dep_result' = [dep_result EXCEPT ![r] = None]
    /\ UNCHANGED << notBackendVars, closed,
                    redis_url, redis_lib, cache_backend, cache_backend_lock,
                    backends, lifespan_pc, lifespan_cache >>

\* the last statement of shutdown_cache_backend: _cache_backend = None
shutdown_slot(slot) == None

\* lifespan, shutdown: shutdown_cache_backend up to its first suspension,
\* the close() of a RedisCache in the slot; without one it runs to its end
ShutdownStart ==
    /\ lifespan_pc = "serving"
    /\ IF /\ cache_backend # None
          /\ backends[Get(cache_backend)].kind = "RedisCache"
       THEN /\ lifespan_pc' = "closing"
            /\ UNCHANGED cache_backend
       ELSE /\ cache_backend' = shutdown_slot(cache_backend)
            /\ lifespan_pc' = "stopped"
    /\ UNCHANGED << notBackendVars, closed,
                    redis_url, redis_lib, cache_backend_lock, dep_pc,
                    dep_result, backends, lifespan_cache >>

\* "await _cache_backend.close()" returns and the slot is cleared
ShutdownClosed ==
    /\ lifespan_pc = "closing"
    /\ closed' = closed \cup {Get(cache_backend)}
    /\ cache_backend' = shutdown_slot(cache_backend)
    /\ lifespan_pc' = "stopped"
    /\ UNCHANGED << notBackendVars,
                    redis_url, redis_lib, cache_backend_lock, dep_pc,
                    dep_result, backends, lifespan_cache >>

\* ------------------------------------------------------ the search cache key
default_search_limit == 20
_SEARCH_CACHE_SCHEMA_VERSION == 2

Queries == {"kalevala", "sinuhe"}
SearchTypes == {"AllFields", "Title"}
Limits == {10, 30, 50}
Words == {"aho", "canth"}
\* a filter parameter of the request: absent, or the list of its values
AuthorFilters ==
    {None, Some(<<>>), Some(<<"aho">>), Some(<<"aho", "aho">>),
     Some(<<"aho", "canth">>), Some(<<"canth", "aho">>)}
SubjectFilters == {None, Some(<<"aho">>)}
FormatFilters == {None, Some(<<"aho">>)}
\* the schema version of the release that computes the key
SchemaVersions == {1, _SEARCH_CACHE_SCHEMA_VERSION}
KeySlots == {"a", "b"}

\* the order of str, as sorted() compares the filter values
Ord(w) == CASE w = "aho" -> 1 [] w = "canth" -> 2

RECURSIVE Insert(_, _)
Insert(x, s) ==
    IF s = <<>> THEN <<x>>
    ELSE IF Ord(x) <= Ord(Head(s)) THEN <<x>> \o s
    ELSE <<Head(s)>> \o Insert(x, Tail(s))

RECURSIVE InsertAll(_, _)
InsertAll(xs, acc) ==
    IF xs = <<>> THEN acc ELSE InsertAll(Tail(xs), Insert(Head(xs), acc))

\* sorted(values)
sorted_mutant(xs) == xs
sorted(xs) == InsertAll(xs, <<>>)

\* "sorted(author) if author else []"
sorted_or_empty(filter) ==
    IF filter # None /\ Get(filter) # <<>> THEN sorted(Get(filter)) ELSE <<>>

\* min(limit, settings.default_search_limit)
effective_limit(limit) ==
    IF limit < default_search_limit THEN limit ELSE default_search_limit

\* filters_payload and payload of search_books: lines 136-147
search_payload(query, search_type, limit, author, subject, format, version) ==
    [ query |-> query, type |-> search_type,
      limit |-> effective_limit(limit),
      filters |-> [ author |-> sorted_or_empty(author),
                    subject |-> sorted_or_empty(subject),
                    format |-> sorted_or_empty(format) ],
      schema_version |-> version ]

json_list(xs) == <<"[">> \o xs \o <<"]">>

\* json.dumps(payload, sort_keys=True, separators=(",", ":")), as the
\* sequence of its tokens: the keys of every object in the order of str
json_dumps(payload) ==
    IF "record_id" \in DOMAIN payload
    THEN <<"{", "record_id", payload.record_id, "}">>
    ELSE <<"{", "filters", "{", "author">> \o json_list(payload.filters.author)
         \o <<"format">> \o json_list(payload.filters.format)
         \o <<"subject">> \o json_list(payload.filters.subject)
         \o <<"}", "limit", ToString(payload.limit),
              "query", payload.query,
              "schema_version", ToString(payload.schema_version),
              "type", payload.type, "}">>

\* FinnaService.cache_key: f"finna:{prefix}:{serialized}"
cache_key(prefix, payload) == <<"finna:", prefix, ":">> \o json_dumps(payload)

\* search_books computes the key of a request: lines 133-148
SearchKey(slot, query, search_type, limit, author, subject, format, version) ==
    /\ key_log[slot] = None
    /\ slot = "b" => key_log["a"] # None
    /\ key_log' = [key_log EXCEPT ![slot] = Some(
           [ query |-> query, type |-> search_type, limit |-> limit,
             author |-> author, subject |-> subject, format |-> format,
             version |-> version,
             key |-> cache_key("search",
                        search_payload(query, search_type, limit, author,
                                       subject, format, version)) ])]
    /\ UNCHANGED << dbVars, batch_size, monitorVars, now, cacheVars,
                    backendVars, searchVars, parseVars, statusVars, hitVars,
                    requestVars >>

\* ------------------------------------------------------------ search_books
SearchReqs == {"s1", "s2"}
RecordIds == {"X", "Y"}
_NO_COVER_SENTINEL == "__no_cover__"

\* the names bound in the module api/routes/search.py: its imports and the
\* names it defines
search_module_names ==
    { "annotations", "asyncio", "logging", "Annotated", "APIRouter", "Depends",
      "HTTPException", "Query", "get_cache_backend", "get_finna_service",
      "CacheBackend", "Settings", "get_settings", "AvailabilityResponse",
      "SearchResponse", "SearchResultRecord", "SearchType", "FinnaService",
      "router", "logger" }

\* the parameters of the search requests: the first two differ in the order
\* of their author filters only
SearchParams ==
    { [query |-> "kalevala", author |-> Some(<<"aho", "canth">>)],
      [query |-> "kalevala", author |-> Some(<<"canth", "aho">>)],
      [query |-> "sinuhe", author |-> None] }

\* lines 133-148 for such a request
request_key(p) ==
    cache_key("search",
              search_payload(p.query, "AllFields", 30, p.author, None, None,
                             _SEARCH_CACHE_SCHEMA_VERSION))

\* FinnaService.cache_key("cover", {"record_id": record_id})
cover_key(record_id) == cache_key("cover", [record_id |-> record_id])

\* what the catalog answers to a search: records with or without an image
SearchResults ==
    { << [id |-> "X", image |-> None], [id |-> "Y", image |-> None] >>,
      << [id |-> "X", image |-> Some(<<"image", "X">>)] >> }
\* what service.search raises
SearchErrors ==
    { [kind |-> "HTTPStatusError", status |-> 503],
      [kind |-> "ReadTimeout", status |-> 0] }
\* how the rest of _fetch_cover_with_cache goes: fetch_cover_image returns an
\* og:image, finds none on the page or raises, or it returns an image and
\* the cache's set raises (a Redis client error)
CoverOutcomes == {"found", "no_cover", "error", "set_raised"}

\* SearchResultRecord._normalize_cover_url(record_id, None)
default_cover(record_id) == <<"Cover/Show", record_id>>

\* SearchResponse.from_finna: a record without image gets the default cover
from_finna_records(payload) ==
    [i \in 1..Len(payload) |->
        [ record_id |-> payload[i].id,
          cover_url |-> IF payload[i].image = None
                        THEN default_cover(payload[i].id)
                        ELSE Get(payload[i].image) ]]

\* _needs_cover_enrichment
_needs_cover_enrichment(record) ==
    record.cover_url = default_cover(record.record_id)

\* response.model_dump_json(): the tokens of the records, in order
RECURSIVE model_dump_json(_)
model_dump_json(records) ==
    IF records = <<>> THEN <<"]">>
    ELSE <<Head(records).record_id, Head(records).cover_url[1],
           Head(records).cover_url[2]>> \o model_dump_json(Tail(records))

\* SearchResponse.model_validate_json(cached)
RECURSIVE model_validate_json(_)
model_validate_json(json) ==
    IF Head(json) = "]" THEN <<>>
    ELSE << [record_id |-> json[1], cover_url |-> <<json[2], json[3]>>] >>
         \o model_validate_json(SubSeq(json, 4, Len(json)))

\* "if cached:" of search_books
is_hit_mutant(cached) == FALSE
is_hit(cached) == cached # None /\ Get(cached) # <<>>

\* the handlers of search_books for an exception of service.search: lines
\* 174-183.  "except httpx.HTTPStatusError" looks the name httpx up.
search_error_response(exc) ==
    IF "httpx" \notin search_module_names
    THEN [status |-> 500, detail |-> "NameError", records |-> <<>>]
    ELSE IF exc.kind = "HTTPStatusError"
    THEN [status |-> exc.status, detail |-> "Finna upstream error",
          records |-> <<>>]
    ELSE [status |-> 502, detail |-> "Failed to execute Finna search",
          records |-> <<>>]

\* _fetch_cover_with_cache up to its await: the result for a cached value,
\* or None when fetch_cover_image has to be called
cached_cover_mutant(cached) ==
    IF cached = None \/ Get(cached) = _NO_COVER_SENTINEL THEN None
    ELSE Some(Some(Get(cached)))
cached_cover(cached) ==
    IF cached = None THEN None
    ELSE IF Get(cached) = _NO_COVER_SENTINEL THEN Some(None)
    ELSE Some(Some(Get(cached)))

\* _fetch_cover_with_cache after fetch_cover_image: what it writes to the
\* cache (value and ttl), if anything
cover_write_mutant(record_id, cover) ==
    IF cover = "found"
    THEN Some([value |-> <<"og", record_id>>, ttl |-> _COVER_CACHE_TTL_SECONDS])
    ELSE Some([value |-> _NO_COVER_SENTINEL, ttl |-> cache_ttl_seconds])
cover_write(record_id, cover) ==
    IF cover = "found"
    THEN Some([value |-> <<"og", record_id>>, ttl |-> _COVER_CACHE_TTL_SECONDS])
    ELSE IF cover = "no_cover"
    THEN Some([value |-> _NO_COVER_SENTINEL, ttl |-> cache_ttl_seconds])
    ELSE None

\* what _fetch_cover_with_cache returns after fetch_cover_image
cover_result(record_id, cover) ==
    IF cover = "found" THEN Some(<<"og", record_id>>) ELSE None

\* how the task ends: with a result, or with the exception that left
\* _fetch_cover_with_cache
task_end(cover) == IF cover = "set_raised" THEN "raised" ELSE "done"

\* the tasks _enhance_cover_urls creates, each run up to its first await
\* against the cache st at time t
cover_tasks(records, st, t) ==
    [i \in {j \in 1..Len(records) : _needs_cover_enrichment(records[j])} |->
        LET c == cached_cover(cache_get(st, cover_key(records[i].record_id), t))
        IN IF c = None
           THEN [pc |-> "fetching", result |-> None, fetched |-> "pending"]
           ELSE [pc |-> "done", result |-> Get(c), fetched |-> "cached"]]

\* the cache after the tasks' lookups: expired cover entries are popped
RECURSIVE cover_lookups_store(_, _, _)
cover_lookups_store(records, st, t) ==
    IF records = <<>> THEN st
    ELSE cover_lookups_store(
            Tail(records),
            IF _needs_cover_enrichment(Head(records))
            THEN cache_get_store(st, cover_key(Head(records).record_id), t)
            ELSE st,
            t)

\* lines 95-104: the results of gather are applied to the records
enhanced_mutant(records, tasks) == records
enhanced(records, tasks) ==
    [i \in 1..Len(records) |->
        IF i \in DOMAIN tasks /\ tasks[i].pc # "raised"
                              /\ tasks[i].result # None
        THEN [records[i] EXCEPT !.cover_url = Get(tasks[i].result)]
        ELSE records[i]]

IdleSearch ==
    [ pc |-> "idle", key |-> None, exc |-> None, records |-> <<>>,
      tasks |-> <<>>, answer |-> None ]

\* lines 187-193 once every cover task is done: the response is stored and
\* returned
Respond(r, q, st) ==
    LET records == enhanced(q.records, q.tasks)
    IN /\ store' = cache_set(st, Get(q.key), model_dump_json(records),
                             cache_ttl_seconds, now)
       /\ sreq' = [sreq EXCEPT ![r] =
              [q EXCEPT !.pc = "answered", !.records = records,
                        !.answer = Some([status |-> 200, detail |-> "",
                                         records |-> records])]]

\* a search request arrives: search_books up to the await of service.search
SearchStart(r, p) ==
    /\ sreq[r].pc = "idle"
    /\ calls.requests < MaxSearches
    /\ LET key == request_key(p)
           cached == cache_get(store, key, now)
       IN /\ store' = cache_get_store(store, key, now)
          /\ IF is_hit(cached)
             THEN /\ sreq' = [sreq EXCEPT ![r] =
                        [IdleSearch EXCEPT
                            !.pc = "answered", !.key = Some(key),
                            !.answer = Some(
                               [status |-> 200, detail |-> "cached",
                                records |-> model_validate_json(Get(cached))])]]
                  /\ calls' = [calls EXCEPT !.requests = @ + 1]
             ELSE /\ sreq' = [sreq EXCEPT ![r] =
                        [IdleSearch EXCEPT !.pc = "searching",
                                           !.key = Some(key)]]
                  /\ calls' = [calls EXCEPT !.requests = @ + 1,
                                            !.search = @ + 1]
    /\ UNCHANGED << notSearchVars, now >>

\* service.search raises
SearchFail(r, exc) ==
    /\ sreq[r].pc = "searching"
    /\ sreq' = [sreq EXCEPT ![r] =
           [@ EXCEPT !.pc = "answered", !.exc = Some(exc),
                     !.answer = Some(search_error_response(exc))]]
    /\ UNCHANGED << notSearchVars, now, store, calls >>

\* service.search returns: the response is built and the cover tasks run up
\* to their fetch; with no fetch to wait for the response goes out
SearchOk(r, payload) ==
    /\ sreq[r].pc = "searching"
    /\ LET records == from_finna_records(payload)
           tasks == cover_tasks(records, store, now)
           st == cover_lookups_store(records, store, now)
           q == [sreq[r] EXCEPT !.records = records, !.tasks = tasks]
           fetched == {records[i].record_id :
                          i \in {j \in DOMAIN tasks : tasks[j].pc = "fetching"}}
           looked == {records[i].record_id : i \in DOMAIN tasks}
       IN /\ calls' = [calls EXCEPT
                 !.lookup =
                    [x \in RecordIds |-> IF x \in looked THEN @[x] + 1 ELSE @[x]],
                 !.cover =
                    [x \in RecordIds |-> IF x \in fetched THEN @[x] + 1 ELSE @[x]]]
          /\ IF fetched = {}
             THEN Respond(r, q, st)
             ELSE /\ store' = st
                  /\ sreq' = [sreq EXCEPT ![r] = [q EXCEPT !.pc = "enriching"]]
    /\ UNCHANGED << notSearchVars, now >>

\* fetch_cover_image of task i ends: the task finishes, and with the last
\* task the gather
CoverDone(r, i, cover) ==
    /\ sreq[r].pc = "enriching"
    /\ i \in DOMAIN sreq[r].tasks
    /\ sreq[r].tasks[i].pc = "fetching"
    /\ LET record_id == sreq[r].records[i].record_id
           w == cover_write(record_id, cover)
           st == IF w = None THEN store
                 ELSE cache_set(store, cover_key(record_id), Get(w).value,
                                Get(w).ttl, now)
           q == [sreq[r] EXCEPT !.tasks[i] =
                    [pc |-> task_end(cover),
                     result |-> cover_result(record_id, cover),
                     fetched |-> cover]]
       IN IF \A j \in DOMAIN q.tasks : q.tasks[j].pc # "fetching"
          THEN Respond(r, q, st)
          ELSE /\ store' = st
               /\ sreq' = [sreq EXCEPT ![r] = q]
    /\ UNCHANGED << notSearchVars, now, calls >>

\* the client has its answer
SearchEnd(r) ==
    /\ sreq[r].pc = "answered"
    /\ sreq' = [sreq EXCEPT ![r] = IdleSearch]
    /\ UNCHANGED << notSearchVars, now, store, calls >>

\* time passes for the requests
SearchTick ==
    /\ now < MaxTime
    /\ now' = now + 1
    /\ UNCHANGED << notSearchVars, store, searchVars >>

\* ------------------------------------------------- availability parsing
\* A JSON value of a field: absent (or null), a string, or an object with
\* the keys translated and value ("" for a key that is missing).
Absent == [t |-> "none", v |-> "", translated |-> "", value |-> ""]
Str(text) == [t |-> "str", v |-> text, translated |-> "", value |-> ""]
Dict(tr, val) == [t |-> "dict", v |-> "", translated |-> tr, value |-> val]

\* Python's truth value of such a field
truthy_field(f) == f.t = "dict" \/ (f.t = "str" /\ f.v # "")

\* a or b
or_field(a, b) == IF truthy_field(a) THEN a ELSE b

\* _normalise_whitespace on the texts of the model: entities decoded,
\* no-break spaces turned into spaces, runs of whitespace collapsed
_normalise_whitespace(text) ==
    CASE text = " Oodi " -> "Oodi"
      [] text = "Oodi&nbsp;" -> "Oodi"
      [] text = "&nbsp;" -> ""
      [] text = " " -> ""
      [] OTHER -> text

\* _text_from_html on the messages of the model
_text_from_html(html) ==
    CASE html = "<b>Tilattu</b>" -> "Tilattu"
      [] html = "<p> </p>" -> ""
      [] OTHER -> _normalise_whitespace(html)

\* _normalise_call_number: a known label prefix is stripped, whatever its
\* case
_normalise_call_number(text) ==
    CASE text = "Hylly: 84.2" -> "84.2"
      [] text = "shelf:84.2" -> "84.2"
      [] OTHER -> _normalise_whitespace(text)

\* str.title() on the status words of the model
title(text) ==
    CASE text = "available" -> "Available"
      [] text = "onloan" -> "Onloan"
      [] text = "checked out" -> "Checked Out"
      [] OTHER -> text

\* str.lower() on the statuses of the model
lower(text) ==
    CASE text = "Available" -> "available"
      [] text = "Saatavana" -> "saatavana"
      [] text = "On Loan" -> "on loan"
      [] text = "Unknown" -> "unknown"
      [] OTHER -> text

\* _STATUS_MAPPING
_STATUS_MAPPING ==
    [available |-> "Available", unavailable |-> "On Loan", onloan |-> "On Loan"]

InSeq(x, xs) == \E i \in 1..Len(xs) : xs[i] = x

\* the holdings of a parsed document: those of the div.groupLocation blocks,
\* first occurrence of each (location, call number) kept
RECURSIVE holdings_from_divs(_, _)
holdings_from_divs(divs, holdings) ==
    IF divs = <<>> THEN holdings
    ELSE LET location_text == _normalise_whitespace(Head(divs).location)
             call_text == _normalise_call_number(
                             _normalise_whitespace(Head(divs).call))
             key == <<location_text, call_text>>
         IN IF location_text = "" \/ location_text = "__HOLDINGSSUMMARYLOCATION__"
               \/ InSeq(key, holdings)
            THEN holdings_from_divs(Tail(divs), holdings)
            ELSE holdings_from_divs(Tail(divs), Append(holdings, key))

\* the cell of a table row, "" where the row is shorter
cell(cells, n) == IF Len(cells) >= n THEN _normalise_whitespace(cells[n]) ELSE ""

\* ... and those of the rows of table.holdings-status, by column position
RECURSIVE holdings_from_rows(_, _)
holdings_from_rows(rows, holdings) ==
    IF rows = <<>> THEN holdings
    ELSE LET cells == Head(rows)
             library == cell(cells, 1)
             location == cell(cells, 2)
             location_value == IF location # "" THEN location ELSE library
             call_number == _normalise_call_number(cell(cells, 4))
             key == <<location_value, call_number>>
         IN IF Len(cells) < 2
               \/ (location_value = "" /\ call_number = "")
               \/ InSeq(key, holdings)
            THEN holdings_from_rows(Tail(rows), holdings)
            ELSE holdings_from_rows(Tail(rows), Append(holdings, key))

\* _parse_holdings_from_html of a document given by its blocks and rows; a
\* missing or empty document has neither
_parse_holdings_from_html(doc) ==
    LET holdings == holdings_from_divs(doc.divs, <<>>)
    IN IF holdings # <<>> THEN holdings
       ELSE holdings_from_rows(doc.rows, <<>>)

\* _normalize_status
_normalize_status(availability, availability_message) ==
    IF availability.t = "str"
    THEN IF lower(availability.v) \in DOMAIN _STATUS_MAPPING
         THEN _STATUS_MAPPING[lower(availability.v)]
         ELSE _normalise_whitespace(title(availability.v))
    ELSE IF _text_from_html(availability_message) # ""
    THEN _text_from_html(availability_message)
    ELSE "Unknown"

\* the item payloads of the holdings, first occurrence of each (library,
\* location) kept
RECURSIVE item_payloads(_, _, _)
item_payloads(holdings, status_text, items) ==
    IF holdings = <<>> THEN items
    ELSE LET payload ==
                 [ library |-> IF Head(holdings)[1] # ""
                               THEN Str(Head(holdings)[1]) ELSE Str("Unknown"),
                   name |-> Absent,
                   location |-> IF Head(holdings)[2] # ""
                                THEN Str(Head(holdings)[2]) ELSE Absent,
                   collection |-> Absent,
                   status |-> Str(status_text),
                   availability |-> Absent ]
             seen == \E i \in 1..Len(items) :
                        /\ items[i].library = payload.library
                        /\ items[i].location = payload.location
         IN IF seen THEN item_payloads(Tail(holdings), status_text, items)
            ELSE item_payloads(Tail(holdings), status_text,
                               Append(items, payload))

\* _build_item_payloads
_build_item_payloads(status_entry) ==
    LET status_text == _normalize_status(status_entry.availability,
                                         status_entry.availability_message)
        h1 == _parse_holdings_from_html(status_entry.locationList)
        h2 == IF h1 # <<>> THEN h1
              ELSE _parse_holdings_from_html(status_entry.full_status)
        fallback == _text_from_html(status_entry.availability_message)
        h3 == IF h2 # <<>> THEN h2
              ELSE IF fallback # "" THEN << <<fallback, "">> >> ELSE <<>>
        h4 == IF h3 # <<>> THEN h3 ELSE << <<"Unknown", "">> >>
    IN item_payloads(h4, status_text, <<>>)

\* a field that is an object gives its first non-empty key of the two
unwrap(f, first) ==
    IF f.t # "dict" THEN f
    ELSE LET a == IF first = "translated" THEN f.translated ELSE f.value
             b == IF first = "translated" THEN f.value ELSE f.translated
         IN IF a # "" THEN Str(a) ELSE IF b # "" THEN Str(b) ELSE Absent

\* ... and a string is normalised
normalised(f) == IF f.t = "str" THEN Str(_normalise_whitespace(f.v)) ELSE f

\* AvailabilityItem.from_finna
item_from_finna(payload) ==
    LET library_name ==
            normalised(unwrap(or_field(payload.library, payload.name),
                              "translated"))
        location_value ==
            normalised(unwrap(or_field(payload.location, payload.collection),
                              "translated"))
        status_value ==
            normalised(unwrap(or_field(payload.status, payload.availability),
                              "value"))
        status_str == IF truthy_field(status_value) THEN status_value.v
                      ELSE "Unknown"
    IN [ library |-> IF truthy_field(library_name) THEN library_name.v
                     ELSE "Unknown",
         location |-> IF truthy_field(location_value)
                      THEN Some(location_value.v) ELSE None,
         status |-> status_str,
         available_count |->
            IF lower(status_str) \in {"available", "saatavana", "lainattavissa"}
            THEN 1 ELSE 0 ]

\* the items of a list of item payloads
items_from_finna(payloads) ==
    [i \in 1..Len(payloads) |-> item_from_finna(payloads[i])]

\* _parse_ajax_response over the status entries _iter_status_entries yields
RECURSIVE ajax_items(_, _, _)
ajax_items(record_id, entries, items) ==
    IF entries = <<>> THEN items
    ELSE IF Head(entries).id # "" /\ Head(entries).id # record_id
    THEN ajax_items(record_id, Tail(entries), items)
    ELSE ajax_items(record_id, Tail(entries),
                    items \o items_from_finna(
                                _build_item_payloads(Head(entries))))

\* _parse_ajax_response: data has to be an object, and its statuses a list
\* or an object of entries
_parse_ajax_response(record_id, payload) ==
    IF payload.data = None THEN <<>>
    ELSE IF Get(payload.data).statuses = None THEN <<>>
    ELSE ajax_items(record_id, Get(Get(payload.data).statuses), <<>>)

\* AvailabilityResponse.from_finna: the items
from_finna(record_id, payload) ==
    IF payload.records.t = "dict"
    THEN IF record_id = payload.records.key
         THEN items_from_finna(payload.records.entries)
         ELSE <<>>
    ELSE IF payload.records.t = "list"
    THEN items_from_finna(payload.records.entries)
    ELSE _parse_ajax_response(record_id, payload)

\* the sequences over S of at most n elements
SeqsUpTo(S, n) == UNION {[1..k -> S] : k \in 0..n}

\* the item objects of the structured shapes: the library as a string, with
\* stray whitespace, as an entity only, or as a translated object
ItemPayloads ==
    [ library : {Absent, Str("Oodi"), Str(" Oodi "), Dict("Oodi", ""),
                 Str("&nbsp;")},
      name : {Absent, Str("Pasila")},
      location : {Absent, Str("Aikuiset")},
      collection : {Absent},
      status : {Absent, Str("Saatavana"), Dict("", "On Loan")},
      availability : {Absent} ]

\* the holdings documents: none; location blocks that name one holding
\* twice; the unfilled template; a status table
NoDoc == [divs |-> <<>>, rows |-> <<>>]
BlocksDoc ==
    [ divs |-> << [location |-> " Oodi ", call |-> "Hylly: 84.2"],
                  [location |-> "Oodi", call |-> "84.2"] >>,
      rows |-> <<>> ]
TemplateDoc ==
    [ divs |-> << [location |-> "__HOLDINGSSUMMARYLOCATION__", call |-> ""] >>,
      rows |-> <<>> ]
TableDoc ==
    [ divs |-> <<>>,
      rows |-> << <<"Oodi", "Aikuiset", "1", "shelf:84.2">>,
                  <<"Oodi">>,
                  <<"Pasila", "">>,
                  <<"Pasila", "&nbsp;">> >> ]

\* the entries of the AJAX status map
StatusEntries ==
    [ id : {"", "X", "Y"},
      availability : {Absent, Str("available"), Str("checked out")},
      availability_message : {"", "<b>Tilattu</b>", "<p> </p>"},
      locationList : {NoDoc, BlocksDoc, TemplateDoc},
      full_status : {NoDoc, TableDoc} ]

\* the value of "records": missing, a list of items, or a map with one
\* record id as key and a list of items as value
NoRecords == [t |-> "none", key |-> "", entries |-> <<>>]
RecordsShapes(n) ==
    {NoRecords}
    \cup {[t |-> "list", key |-> "", entries |-> items] :
             items \in SeqsUpTo(ItemPayloads, n)}
    \cup {[t |-> "dict", key |-> key, entries |-> items] :
             key \in RecordIds, items \in SeqsUpTo(ItemPayloads, n)}

\* the value of "data": missing, or an object whose statuses are missing or
\* the entries of a list or map
DataShapes(n) ==
    {None, Some([statuses |-> None])}
    \cup {Some([statuses |-> Some(entries)]) :
             entries \in SeqsUpTo(StatusEntries, n)}

\* the availability payloads with lists of at most n elements
AvailabilityPayloads(n) ==
    {[records |-> records, data |-> None] : records \in RecordsShapes(n)}
    \cup {[records |-> NoRecords, data |-> data] : data \in DataShapes(n)}

\* AvailabilityResponse.from_finna(record_id, payload)
ParseAvailability(record_id, payload) ==
    /\ parse_log = None
    /\ parse_log' = Some([ record_id |-> record_id, payload |-> payload,
                           items |-> from_finna(record_id, payload) ])
    /\ UNCHANGED notParseVars

\* the lists, statuses and bodies the requests to the list routes name
BookLists == {"wishlist", "reserved"}
BookStatuses == {None} \cup {Some(st) : st \in ReservationStatuses}
ReservationIds == 1..MaxReservations
BookUpdates ==
    [set_lt : {TRUE}, lt : BookLists, set_status : {FALSE}, status : {None}]
    \cup [set_lt : BOOLEAN, lt : BookLists, set_status : {TRUE},
          status : BookStatuses]

\* the answer a request to the list routes got
Answer(op, id, code) == Some([op |-> op, id |-> id, code |-> code])

\* POST /books for the one record the lists of this user are about
PostBook ==
    /\ next_id <= MaxBooks
    /\ \E u \in Users, lt \in BookLists, new_status \in BookStatuses :
          LET f == RecordOf(1)
              code == add_book_response(u, f, lt)
          IN /\ IF code = 201
                THEN add_book(u, f, lt, TRUE, new_status)
                ELSE UNCHANGED dbVars
             /\ response' = Answer("add_book", next_id, code)
    /\ UNCHANGED << reservations, next_reservation_id, notRequestVars >>

\* PATCH /books/{book_id}
PatchBook ==
    /\ \E b \in BookIds, update \in BookUpdates :
          LET code == update_book_response(b, update.set_lt, update.lt,
                                           update.set_status, update.status)
          IN /\ IF code = 200
                THEN update_book(b, update.set_lt, update.lt, FALSE, FALSE,
                                 update.set_status, update.status, FALSE)
                ELSE UNCHANGED dbVars
             /\ response' = Answer("update_book", b, code)
    /\ UNCHANGED << reservations, next_reservation_id, notRequestVars >>

\* DELETE /books/{book_id}
DeleteBook ==
    /\ \E b \in BookIds :
          LET code == remove_book_response(b)
          IN /\ IF code = 204 THEN remove_book(b) ELSE UNCHANGED dbVars
             /\ response' = Answer("remove_book", b, code)
    /\ UNCHANGED << reservations, next_reservation_id, notRequestVars >>

\* DELETE /books?list=...
ClearList ==
    /\ \E u \in Users, lt \in BookLists :
          /\ clear_list(u, lt)
          /\ response' = Answer("clear_list", 0, 204)
    /\ UNCHANGED << reservations, next_reservation_id, notRequestVars >>

\* POST /reservations
PostReservation ==
    /\ next_reservation_id <= MaxReservations
    /\ \E u \in Users :
          LET f == RecordOf(1)
              code == create_reservation_response(u, f)
          IN /\ IF code = 201
                THEN create_reservation(u, f)
                ELSE UNCHANGED << reservations, next_reservation_id >>
             /\ response' =
                   Answer("create_reservation", next_reservation_id, code)
    /\ UNCHANGED << dbVars, notRequestVars >>

\* PATCH /reservations/{reservation_id}
PatchReservation ==
    /\ \E r \in ReservationIds, set_status \in BOOLEAN,
          new_status \in BookStatuses :
          LET code == update_reservation_response(r, set_status, new_status)
          IN /\ set_status \/ new_status = None
             /\ IF code = 200
                THEN update_reservation(r, set_status, new_status)
                ELSE UNCHANGED << reservations, next_reservation_id >>
             /\ response' = Answer("update_reservation", r, code)
    /\ UNCHANGED << dbVars, notRequestVars >>

\* DELETE /reservations/{reservation_id}
DeleteReservation ==
    /\ \E r \in ReservationIds :
          LET code == cancel_reservation_response(r)
          IN /\ IF code = 204
                THEN cancel_reservation(r)
                ELSE UNCHANGED << reservations, next_reservation_id >>
             /\ response' = Answer("cancel_reservation", r, code)
    /\ UNCHANGED << dbVars, notRequestVars >>

\* the requests of the books API
AddBook ==
    /\ \E u \in Users, f \in {RecordOf(next_id)}, lt \in ListTypes,
          notify \in BOOLEAN :
           add_book(u, f, lt, notify, None)
    /\ UNCHANGED << batch_size, monitorVars, now, cacheVars, apiVars >>

UpdateBook ==
    /\ \E b \in BookIds :
          \/ \E lt \in ListTypes : update_book(b, TRUE, lt, FALSE, FALSE, FALSE, None, FALSE)
          \/ \E notify \in BOOLEAN :
                update_book(b, FALSE, "wishlist", TRUE, notify, FALSE, None,
                            FALSE)
          \/ update_book(b, FALSE, "wishlist", FALSE, FALSE, FALSE, None, TRUE)
    /\ UNCHANGED << batch_size, monitorVars, now, cacheVars, apiVars >>

RemoveBook ==
    /\ \E b \in BookIds : remove_book(b)
    /\ UNCHANGED << batch_size, monitorVars, now, cacheVars, apiVars >>

\* The tables the service is constructed over: empty, or as an earlier
\* process left them, with a tracked row that was found available.
InitialTables ==
    { <<>>,
      << [NewBook(1, RecordOf(1), "wishlist", TRUE, None) EXCEPT !.is_available = TRUE] >> }

InitBase ==
    /\ books \in InitialTables
    /\ next_id = Len(books) + 1
    /\ recency = [i \in 1..Len(books) |-> i]
    /\ notifications = [b \in BookIds |-> 0]
    /\ became_available = [b \in BookIds |-> 0]
    /\ batch_size \in 1..MaxBatch
    /\ lock = FALSE
    /\ state = InitialJobState
    /\ pc = [c \in Callers |-> "idle"]
    /\ run = [c \in Callers |-> IdleRun]
    /\ outcome = NoOutcome
    /\ orphan = <<>>
    /\ now = 0
    /\ runs_started = 0
    /\ cancels = 0
    /\ store = <<>>
    /\ set_log = <<>>
    /\ get_result = NoGet
    /\ cache_backend = None
    /\ cache_backend_lock = FALSE
    /\ dep_pc = [r \in Requests |-> "idle"]
    /\ dep_result = [r \in Requests |-> None]
    /\ backends = <<>>
    /\ lifespan_pc = "init"
    /\ lifespan_cache = None
    /\ closed = {}
    /\ key_log = [slot \in KeySlots |-> None]
    /\ sreq = [r \in SearchReqs |-> IdleSearch]
    /\ parse_log = None
    /\ snapshot = None
    /\ hit_log = None
    /\ reservations = <<>>
    /\ next_reservation_id = 1
    /\ response = None
    /\ calls = [requests |-> 0, search |-> 0,
                lookup |-> [x \in RecordIds |-> 0],
                cover |-> [x \in RecordIds |-> 0]]

\* The monitor and the cache read no Redis setting: one configuration.
Init ==
    /\ InitBase
    /\ redis_url = Some("redis://cache:6379")
    /\ redis_lib = TRUE

Next ==
    \/ AddBook
    \/ UpdateBook
    \/ RemoveBook
    \/ \E c \in Callers : RunStart(c)
    \/ \E c \in Callers : RunRejected(c)
    \/ \E c \in Callers : LoadTargets(c)
    \/ \E c \in Callers, exc \in LoadErrors : LoadTargetsFail(c, exc)
    \/ \E c \in Callers, entries \in EntryLists : FetchOk(c, entries)
    \/ \E c \in Callers, exc \in FetchErrors : FetchFail(c, exc)
    \/ \E c \in Callers : PersistOk(c)
    \/ \E c \in Callers, exc \in PersistErrors : PersistFail(c, exc)
    \/ \E c \in Callers : Cancel(c)
    \/ OrphanCommit
    \/ OrphanFail

Spec == Init /\ [][Next]_vars

\* The monitor over the tables as they are, with callers of status().
NextStatus ==
    \/ \E c \in Callers : RunStart(c)
    \/ \E c \in Callers : RunRejected(c)
    \/ \E c \in Callers : LoadTargets(c)
    \/ \E c \in Callers, exc \in LoadErrors : LoadTargetsFail(c, exc)
    \/ \E c \in Callers, entries \in EntryLists : FetchOk(c, entries)
    \/ \E c \in Callers, exc \in FetchErrors : FetchFail(c, exc)
    \/ \E c \in Callers : PersistOk(c)
    \/ \E c \in Callers, exc \in PersistErrors : PersistFail(c, exc)
    \/ \E c \in Callers : Cancel(c)
    \/ OrphanCommit
    \/ OrphanFail
    \/ StatusCall

SpecStatus == Init /\ [][NextStatus]_vars

\* The cache on its own: set, get and the passing of time.
NextCache ==
    \/ \E key \in CacheKeys, value \in CacheValues, ttl_seconds \in Ttls :
          CacheSet(key, value, ttl_seconds)
    \/ \E key \in CacheKeys : CacheGet(key)
    \/ Tick

SpecCache == Init /\ [][NextCache]_vars

\* The application from startup to shutdown, as far as the cache backend
\* goes, under every Redis configuration.
InitBackend ==
    /\ InitBase
    /\ redis_url \in RedisUrls
    /\ redis_lib \in BOOLEAN

NextBackend ==
    \/ LifespanStart
    \/ \E probe \in ProbeOutcomes : LifespanProbe(probe)
    \/ \E r \in Requests : GetCacheBackend(r)
    \/ \E r \in Requests : LockAcquired(r)
    \/ \E r \in Requests, probe \in ProbeOutcomes : DepProbe(r, probe)
    \/ \E r \in Requests : RequestEnd(r)
    \/ ShutdownStart
    \/ ShutdownClosed

SpecBackend == InitBackend /\ [][NextBackend]_vars

\* Two search requests, each with parameters of its own, compute their keys.
NextKey ==
    \E slot \in KeySlots, query \in Queries, search_type \in SearchTypes,
       limit \in Limits, author \in AuthorFilters, subject \in SubjectFilters,
       format \in FormatFilters, version \in SchemaVersions :
        SearchKey(slot, query, search_type, limit, author, subject, format,
                  version)

InitKey ==
    /\ Init
    /\ books = <<>>
    /\ batch_size = 1

SpecKey == InitKey /\ [][NextKey]_vars

\* Search requests against the process-local cache and the catalog.
NextSearch ==
    \/ \E r \in SearchReqs, p \in SearchParams : SearchStart(r, p)
    \/ \E r \in SearchReqs, exc \in SearchErrors : SearchFail(r, exc)
    \/ \E r \in SearchReqs, payload \in SearchResults : SearchOk(r, payload)
    \/ \E r \in SearchReqs, i \in 1..2, cover \in CoverOutcomes :
          CoverDone(r, i, cover)
    \/ \E r \in SearchReqs : SearchEnd(r)
    \/ SearchTick

SpecSearch == InitKey /\ [][NextSearch]_vars

\* The availability parser applied to the payload shapes, for record X.
NextParse ==
    /\ parse_log = None
    /\ \E payload \in AvailabilityPayloads(MaxEntries) :
          ParseAvailability("X", payload)

SpecParse == InitKey /\ [][NextParse]_vars

\* The judgement of the parsed entries of a target, over lists of entries.
NextHit ==
    /\ hit_log = None
    /\ \E entries \in SeqsUpTo(HitEntries, MaxEntries),
          preferred \in PreferredLibraries :
          JudgeEntries(entries, preferred)

SpecHit == InitKey /\ [][NextHit]_vars

\* The list routes alone: one user, one catalog record, the unified books
\* API and the legacy reservations API.
NextBooks ==
    \/ PostBook
    \/ PatchBook
    \/ DeleteBook
    \/ ClearList
    \/ PostReservation
    \/ PatchReservation
    \/ DeleteReservation

SpecBooks == InitKey /\ [][NextBooks]_vars

\* ------------------------------------------------------------------ claims
Running == {c \in Callers : pc[c] # "idle"}

\* C1: at most one execution of run() is past the lock at any moment, a run
\* starts only when none is in flight, and a call made while a run is in
\* flight gets JobAlreadyRunningError at once and changes neither the lock,
\* nor any field of the job state, nor the run in flight.
C1_MutualExclusion ==
    [][ /\ Cardinality({c \in Callers : pc'[c] # "idle"}) <= 1
        /\ runs_started' # runs_started => Running = {}
        /\ (outcome'.kind = "already_running" /\ outcome' # outcome) =>
              /\ Running # {}
              /\ state' = state
              /\ lock' = lock
              /\ pc' = pc
              /\ run' = run ]_vars

\* a call was rejected while a run was waiting for a fetch
C1_Witness ==
    /\ outcome.kind = "already_running"
    /\ \E c \in Callers : pc[c] = "fetching"
    /\ IsSome(state.last_started_at)

\* C2: as long as every run has run to its end, the notifications inserted
\* for a row are as many as the commits that took its is_available from
\* FALSE to TRUE; a run that finds an available row available again adds
\* none.
C2_OncePerTransition ==
    cancels = 0 =>
        \A b \in BookIds : notifications[b] = became_available[b]

\* the only row was found available by one run and re-checked by the next,
\* which persisted it and created no notification
C2_Witness ==
    /\ cancels = 0
    /\ runs_started = 2
    /\ Running = {}
    /\ DOMAIN books = {1}
    /\ books[1].is_available
    /\ notifications[1] = 1
    /\ IsSome(state.last_result)
    /\ Get(state.last_result).updates_persisted = 1
    /\ Get(state.last_result).notifications_created = 0

\* C3: the notify flag of an update is TRUE exactly when the check found the
\* item available and the is_available loaded for the run was FALSE; the
\* loaded value is the stored one while no cancelled run is about.
C3_NotifyOnTransitionOnly ==
    \A c \in Callers : \A i \in 1..Len(run[c].updates) :
        LET u == run[c].updates[i]
            prior == u.target.is_available
        IN /\ (prior /\ u.available) => ~ u.notify
           /\ (~ prior /\ u.available) => u.notify
           /\ ~ u.available => ~ u.notify
           /\ (cancels = 0 /\ u.target.id \in DOMAIN books) =>
                 prior = books[u.target.id].is_available

\* a row stored as available was found available: no notification is due
C3_Witness ==
    \E c \in Callers : \E i \in 1..Len(run[c].updates) :
        LET u == run[c].updates[i]
        IN /\ u.target.is_available
           /\ u.available
           /\ ~ u.notify
           /\ u.target.id \in DOMAIN books
           /\ books[u.target.id].is_available

\* C4: no commit takes a row's is_available from FALSE to TRUE without
\* inserting the notification of that transition in the same commit.
C4_FlagWithNotification ==
    [][ \A b \in DOMAIN books \cap DOMAIN books' :
            (~ books[b].is_available /\ books'[b].is_available) =>
                notifications'[b] = notifications[b] + 1 ]_vars

\* the targets whose fetch did not fail, by id
FetchedIds(r, errs) ==
    {r.targets[i].id : i \in 1..Len(r.targets)} \
        {errs[i].id : i \in 1..Len(errs)}

\* a step in which caller c's run returns its result
Returns(c) ==
    /\ pc[c] # "idle"
    /\ pc'[c] = "idle"
    /\ outcome'.kind = "returned"

\* C5 as stated: a successful run over N targets with k failed fetches has
\* persisted N - k updates.
C5_PersistsAllOthers ==
    IsSome(state.last_result) =>
        LET res == Get(state.last_result)
        IN res.updates_persisted = res.items_checked - Len(res.errors)

\* C5: a run whose loading and persistence succeed returns a result however
\* many fetches failed; the result counts every loaded target, has one error
\* per failed fetch, counts as persisted the fetched targets whose rows still
\* exist at the commit, which get the availability found, and the job state
\* holds a success and no error.
C5_PartialFailureIsSuccess ==
    [][ \A c \in Callers : Returns(c) =>
          LET res == Get(state'.last_result)
              r == run[c]
              kept == FetchedIds(r, res.errors) \cap DOMAIN books
          IN /\ IsSome(state'.last_result)
             /\ pc[c] # "loading" => res.items_checked = Len(r.targets)
             /\ Len(res.errors) + Len(r.updates) = res.items_checked
             /\ res.updates_persisted = Cardinality(kept)
             /\ res.updates_persisted <= res.items_checked - Len(res.errors)
             /\ \A i \in 1..Len(r.updates) :
                   r.updates[i].target.id \in DOMAIN books =>
                      books'[r.updates[i].target.id].is_available
                          = r.updates[i].available
             /\ state'.last_success_at = Some(now')
             /\ state'.last_error_at = None
             /\ state'.last_error_message = None ]_vars

\* two targets were loaded, one fetch failed, the other was persisted
C5_Witness ==
    /\ IsSome(state.last_result)
    /\ Get(state.last_result).items_checked = 2
    /\ Len(Get(state.last_result).errors) = 1
    /\ Get(state.last_result).updates_persisted = 1
    /\ state.last_success_at = state.last_completed_at
    /\ state.last_error_at = None

\* C6: when _load_targets or _persist_updates raises, the caller gets that
\* exception, and the job state already holds the time of the error, the
\* text of the exception and the duration of the run.
C6_BookkeepingThenReraise ==
    [][ \A c \in Callers :
          (pc[c] # "idle" /\ pc'[c] = "idle" /\ outcome'.kind = "raised") =>
             /\ pc[c] \in {"loading", "persisting"}
             /\ IsSome(outcome'.exc)
             /\ Get(outcome'.exc) \in LoadErrors \cup PersistErrors
             /\ state'.last_error_message = outcome'.exc
             /\ state'.last_error_at = Some(now')
             /\ state'.last_completed_at = Some(now')
             /\ state'.last_duration_seconds = Some(now' - run[c].start_time)
             /\ state'.last_success_at = state.last_success_at ]_vars

\* the commit of a run failed after an earlier run had succeeded
C6_Witness ==
    /\ outcome = [kind |-> "raised", exc |-> Some("commit_error")]
    /\ state.last_error_message = Some("commit_error")
    /\ IsSome(state.last_success_at)
    /\ IsSome(state.last_duration_seconds)

\* C7: whenever no run is in flight the lock is free, however the last run
\* ended: status() reports running = FALSE and run() is not rejected.
C7_LockReleased ==
    Running = {} => (~ status.running /\ ~ locked)

\* a run was cancelled, the next run was accepted and raised, the lock is free
C7_Witness ==
    /\ cancels = 1
    /\ runs_started = 2
    /\ outcome.kind = "raised"
    /\ Running = {}
    /\ ~ status.running

\* the for loop of _collect_updates awaits availability() of target idx
\* before it goes on: the fetches of targets 1..idx have been started
fetch_started(r, i) == i <= r.idx

\* C8: in a run with two or more targets every fetch is started without
\* waiting for another one to complete.
C8_ConcurrentFetches ==
    \A c \in Callers :
        (pc[c] = "fetching" /\ Len(run[c].targets) >= 2) =>
            \A i \in 1..Len(run[c].targets) : fetch_started(run[c], i)

\* C9: a target whose fetch failed in the last run, which returned its
\* result, and that is still eligible is among the targets the next run
\* loads.
C9_FailedTargetRetried ==
    [][ \A c \in Callers :
          ( /\ pc[c] = "loading"
            /\ pc'[c] = "fetching" \/ outcome'.kind = "returned"
            /\ cancels = 0
            /\ IsSome(state.last_result)
            /\ state.last_success_at = state.last_completed_at ) =>
             LET errs == Get(state.last_result).errors
                 loaded == {run'[c].targets[i].id :
                               i \in 1..Len(run'[c].targets)}
             IN \A i \in 1..Len(errs) :
                   Eligible(books, errs[i].id) => errs[i].id \in loaded ]_vars

\* C10: after set(key, v, T) at t0 and no later set of the key, get(key)
\* returns v at every time before t0 + T and nothing from t0 + T on; the
\* last set of a key decides both the value and the expiry.
C10_TtlBoundary ==
    \A k \in DOMAIN set_log :
        get_result.key = Some(k) =>
            LET s == set_log[k]
            IN /\ get_result.at < s.at + s.ttl =>
                     get_result.value = Some(s.value)
               /\ get_result.at >= s.at + s.ttl =>
                     get_result.value = None

\* a key set after time has passed is read at the very moment its entry
\* expires: nothing is returned
C10_Witness ==
    \E k \in DOMAIN set_log :
        /\ get_result.key = Some(k)
        /\ set_log[k].ttl = 1
        /\ set_log[k].at >= 1
        /\ get_result.at = set_log[k].at + set_log[k].ttl
        /\ get_result.value = None

\* C11: no second cache backend is constructed while the process runs: the
\* one create_cache_backend call returns the one backend of the process.
C11_ConstructedOnce ==
    Len(backends) <= 1

\* C12: create_cache_backend never raises; it returns a RedisCache only when
\* a URL and the client library are there and its one ping succeeded, and a
\* MemoryCache when the ping or the connection failed or when the URL or the
\* library is missing, in which case no ping is made.
C12_NeverRaises ==
    /\ lifespan_pc # "failed"
    /\ \A r \in Requests : dep_pc[r] # "failed"
    /\ \A i \in 1..Len(backends) :
          LET b == backends[i]
          IN /\ b.kind \in {"RedisCache", "MemoryCache"}
             /\ b.kind = "RedisCache" <=>
                   (truthy(redis_url) /\ redis_lib /\ b.probe = "pong")
             /\ (~ truthy(redis_url) \/ ~ redis_lib) =>
                   (b.kind = "MemoryCache" /\ b.probe = "none")
             /\ b.probe \in ProbeOutcomes \cup {"none"}

\* a request's create_cache_backend pinged Redis, the ping failed, and the
\* request got a MemoryCache
C12_Witness ==
    \E r \in Requests :
        /\ dep_pc[r] = "done"
        /\ IsSome(dep_result[r])
        /\ backends[Get(dep_result[r])] =
              [kind |-> "MemoryCache", by |-> r, probe |-> "connection_error"]

\* how many times w is among the values of a filter parameter
RECURSIVE Count(_, _)
Count(xs, w) ==
    IF xs = <<>> THEN 0
    ELSE (IF Head(xs) = w THEN 1 ELSE 0) + Count(Tail(xs), w)

\* two filter parameters hold the same values, in whatever order
SameValues(f, g) ==
    LET xs == IF f = None THEN <<>> ELSE Get(f)
        ys == IF g = None THEN <<>> ELSE Get(g)
    IN \A w \in Words : Count(xs, w) = Count(ys, w)

\* C13: two search requests get the same cache key exactly when they have
\* the same query, type, effective limit and schema version and each of
\* their author, subject and format filters holds the same values in
\* whatever order.
C13_KeyDeterminism ==
    (key_log["a"] # None /\ key_log["b"] # None) =>
        LET a == Get(key_log["a"])
            b == Get(key_log["b"])
        IN (a.key = b.key) <=>
              /\ a.query = b.query
              /\ a.type = b.type
              /\ effective_limit(a.limit) = effective_limit(b.limit)
              /\ a.version = b.version
              /\ SameValues(a.author, b.author)
              /\ SameValues(a.subject, b.subject)
              /\ SameValues(a.format, b.format)

\* two requests that differ in the order of their author filters and in
\* their limits, both above the default, have one key
C13_Witness ==
    /\ key_log["a"] # None
    /\ key_log["b"] # None
    /\ Get(key_log["a"]).author = Some(<<"aho", "canth">>)
    /\ Get(key_log["b"]).author = Some(<<"canth", "aho">>)
    /\ Get(key_log["a"]).limit = 30
    /\ Get(key_log["b"]).limit = 50
    /\ Get(key_log["a"]).key = Get(key_log["b"]).key

\* C14: when the cache holds an unexpired entry for the key of an arriving
\* search request, the request is answered at once with the deserialized
\* entry, and neither service.search nor a cover lookup is called nor is the
\* cache written.
C14_HitTouchesNothing ==
    [][\A r \in SearchReqs :
          (/\ sreq[r].pc = "idle"
           /\ sreq'[r].pc # "idle"
           /\ Get(sreq'[r].key) \in DOMAIN store
           /\ store[Get(sreq'[r].key)].expires_at > now)
          => /\ sreq'[r].pc = "answered"
             /\ sreq'[r].answer =
                   Some([status |-> 200, detail |-> "cached",
                         records |-> model_validate_json(
                                        store[Get(sreq'[r].key)].value)])
             /\ calls'.search = calls.search
             /\ calls'.lookup = calls.lookup
             /\ calls'.cover = calls.cover
             /\ store' = store]_vars

\* a second request was answered from the entry the first one stored, with
\* the cover the first one fetched
C14_Witness ==
    \E r \in SearchReqs :
        /\ sreq[r].pc = "answered"
        /\ Get(sreq[r].answer).detail = "cached"
        /\ Get(sreq[r].answer).records =
              << [record_id |-> "X", cover_url |-> <<"og", "X">>],
                 [record_id |-> "Y", cover_url |-> default_cover("Y")] >>
        /\ calls.requests = 2
        /\ calls.search = 1

SentinelCached(x) ==
    /\ cover_key(x) \in DOMAIN store
    /\ store[cover_key(x)].value = _NO_COVER_SENTINEL
    /\ store[cover_key(x)].expires_at > now

\* C16: while the cache holds the unexpired no-cover sentinel of record X,
\* no step calls fetch_cover_image for X, and every cover lookup for X made
\* in the step is finished with the result "no cover".
C16_SentinelSuppressesFetch ==
    [][\A x \in RecordIds :
          SentinelCached(x)
          => /\ calls'.cover[x] = calls.cover[x]
             /\ \A r \in SearchReqs :
                   (sreq[r].pc = "searching" /\ sreq'[r].pc # "searching")
                   => \A i \in DOMAIN sreq'[r].tasks :
                         sreq'[r].records[i].record_id = x
                         => sreq'[r].tasks[i] =
                              [pc |-> "done", result |-> None,
                               fetched |-> "cached"]]_vars

\* X was looked up twice and fetched once, that fetch found no cover, and
\* the second lookup was answered by the sentinel
C16_Witness ==
    /\ calls.lookup["X"] = 2
    /\ calls.cover["X"] = 1
    /\ SentinelCached("X")
    /\ \E r \in SearchReqs :
          /\ sreq[r].pc = "answered"
          /\ 1 \in DOMAIN sreq[r].tasks
          /\ sreq[r].tasks[1].fetched = "cached"
          /\ sreq[r].tasks[1].result = None
          /\ sreq[r].records[1] =
                [record_id |-> "X", cover_url |-> default_cover("X")]

\* the lookup of task i of request r ends in this step with an exception of
\* fetch_cover_image, or throws one itself
LookupFails(r, i) ==
    /\ i \in DOMAIN sreq[r].tasks
    /\ sreq[r].tasks[i].pc = "fetching"
    /\ sreq'[r].tasks[i].fetched \in {"error", "set_raised"}

\* the state part of C17
C17_FailureIsolated ==
    \A r \in SearchReqs :
        /\ sreq[r].pc = "enriching"
           => \E i \in DOMAIN sreq[r].tasks : sreq[r].tasks[i].pc = "fetching"
        /\ (sreq[r].pc = "answered" /\ sreq[r].exc = None
                /\ Get(sreq[r].answer).detail # "cached")
           => /\ Get(sreq[r].answer).status = 200
              /\ Get(sreq[r].answer).records = sreq[r].records
              /\ \A i \in DOMAIN sreq[r].tasks :
                    LET id == sreq[r].records[i].record_id
                    IN /\ sreq[r].tasks[i].pc # "fetching"
                       /\ sreq[r].tasks[i].fetched \in {"error", "set_raised"}
                          => sreq[r].records[i].cover_url = default_cover(id)
                       /\ sreq[r].tasks[i].fetched = "found"
                          => sreq[r].records[i].cover_url = <<"og", id>>

\* C17: a cover lookup that fails leaves the other lookups of the request
\* running and the request is answered with 200 once all are done; in the
\* answer the failed record has the cover it had and every record whose
\* fetch found a cover has that cover; the failing step writes nothing under
\* the record's cover key.
C17_CoverFailureContained ==
    [][/\ C17_FailureIsolated'
       /\ \A r \in SearchReqs : \A i \in 1..2 :
             LookupFails(r, i)
             => LET ck == cover_key(sreq[r].records[i].record_id)
                IN /\ ck \in DOMAIN store' => ck \in DOMAIN store
                   /\ ck \in DOMAIN store' => store'[ck] = store[ck]
                   /\ \A j \in DOMAIN sreq[r].tasks \ {i} :
                         /\ sreq'[r].tasks[j] = sreq[r].tasks[j]
                         /\ sreq[r].tasks[j].pc = "fetching"
                            => sreq'[r].pc = "enriching"]_vars

\* the lookup of X threw and the one of Y found a cover: the request is
\* answered with X's default cover and Y's new one, nothing cached for X
C17_Witness ==
    \E r \in SearchReqs :
        /\ sreq[r].pc = "answered"
        /\ DOMAIN sreq[r].tasks = {1, 2}
        /\ sreq[r].tasks[1].fetched = "error"
        /\ sreq[r].tasks[2].fetched = "found"
        /\ Get(sreq[r].answer).status = 200
        /\ Get(sreq[r].answer).records =
              << [record_id |-> "X", cover_url |-> default_cover("X")],
                 [record_id |-> "Y", cover_url |-> <<"og", "Y">>] >>
        /\ cover_key("X") \notin DOMAIN store
        /\ cover_key("Y") \in DOMAIN store

\* the lookup of X threw out of its task and the one of Y found a cover
C17_WitnessThrown ==
    \E r \in SearchReqs :
        /\ sreq[r].pc = "answered"
        /\ DOMAIN sreq[r].tasks = {1, 2}
        /\ sreq[r].tasks[1].pc = "raised"
        /\ sreq[r].tasks[2].fetched = "found"
        /\ Get(sreq[r].answer).status = 200
        /\ Get(sreq[r].answer).records[2].cover_url = <<"og", "Y">>

\* the keys of the search cache
SearchKeys == {request_key(p) : p \in SearchParams}

\* the step writes the entry under key k
Written(k) ==
    /\ k \in DOMAIN store'
    /\ k \notin DOMAIN store \/ store'[k] # store[k]

\* request r is answered in this step after its call of service.search
Answers(r) ==
    /\ sreq[r].pc \in {"searching", "enriching"}
    /\ sreq'[r].pc = "answered"

C20_WitnessStored ==
    \E r \in SearchReqs :
        /\ sreq[r].pc = "answered"
        /\ sreq[r].exc = None
        /\ Get(sreq[r].answer).records =
              << [record_id |-> "X", cover_url |-> <<"og", "X">>],
                 [record_id |-> "Y", cover_url |-> <<"og", "Y">>] >>
        /\ Get(sreq[r].key) \in DOMAIN store
        /\ store[Get(sreq[r].key)].value =
              model_dump_json(Get(sreq[r].answer).records)

\* the (library, location) pairs of the items are pairwise different
Distinct(items) ==
    \A i, j \in 1..Len(items) :
        i # j => \/ items[i].library # items[j].library
                 \/ items[i].location # items[j].location

\* C18: whatever the shape of the payload, the parsed result has at least
\* one entry.
C18_NeverEmpty ==
    parse_log # None => Get(parse_log).items # <<>>

\* what the code does give: every status entry that is parsed contributes
\* at least one item, the "Unknown" one when it holds nothing
C18_EntryNeverEmpty ==
    \A entry \in StatusEntries :
        /\ _build_item_payloads(entry) # <<>>
        /\ (/\ entry.availability = Absent
            /\ _text_from_html(entry.availability_message) = ""
            /\ entry.locationList \in {NoDoc, TemplateDoc}
            /\ entry.full_status = NoDoc)
           => items_from_finna(_build_item_payloads(entry)) =
                 << [library |-> "Unknown", location |-> None,
                     status |-> "Unknown", available_count |-> 0] >>

\* C19: the entries parsed from one payload never contain two with the same
\* (library, location) pair.
C19_NoDuplicatePairs ==
    parse_log # None => Distinct(Get(parse_log).items)

\* what the code does give: the items of one status entry are distinct
C19_EntryDistinct ==
    \A entry \in StatusEntries :
        Distinct(items_from_finna(_build_item_payloads(entry)))

\* the end-of-run fields of a JobState belong to one run: none is set, or
\* they are those of a success, or those of a failure
Whole(st) ==
    \/ /\ st.last_completed_at = None
       /\ st.last_success_at = None
       /\ st.last_error_at = None
       /\ st.last_error_message = None
       /\ st.last_duration_seconds = None
       /\ st.last_result = None
    \/ /\ st.last_completed_at # None
       /\ st.last_success_at = st.last_completed_at
       /\ st.last_error_at = None
       /\ st.last_error_message = None
       /\ st.last_duration_seconds # None
       /\ st.last_result # None
    \/ /\ st.last_completed_at # None
       /\ st.last_error_at = st.last_completed_at
       /\ st.last_error_message # None
       /\ st.last_duration_seconds # None
       /\ (st.last_success_at = None) = (st.last_result = None)

\* run c takes the lock in this step and writes last_started_at only
StartsRun(c) ==
    /\ pc[c] = "idle"
    /\ pc'[c] # "idle"
    /\ ~ lock
    /\ lock'
    /\ state' = [state EXCEPT !.last_started_at = Some(now')]

\* run c, holding the lock, ends in this step and writes every field of
\* its end
EndsRun(c) ==
    /\ pc[c] # "idle"
    /\ pc'[c] = "idle"
    /\ lock
    /\ state'.last_started_at = state.last_started_at
    /\ state'.last_completed_at = Some(now')
    /\ state'.last_duration_seconds = Some(now' - run[c].start_time)
    /\ \/ /\ outcome'.kind = "returned"
          /\ state'.last_success_at = Some(now')
          /\ state'.last_result # None
          /\ state'.last_error_at = None
          /\ state'.last_error_message = None
       \/ /\ outcome'.kind = "raised"
          /\ state'.last_error_at = Some(now')
          /\ state'.last_error_message = outcome'.exc
          /\ state'.last_success_at = state.last_success_at
          /\ state'.last_result = state.last_result

\* C21: JobState changes only in a step of the run that takes or holds the
\* lock, and the step that ends a run writes all its end fields at once; a
\* call of status() and a rejected run leave JobState alone, and status()
\* returns the lock and the JobState of the moment, none of whose end fields
\* is from another run than the others.
C21_StateWrittenByLockHolder ==
    [][/\ state' # state
          => \E c \in Callers : StartsRun(c) \/ EndsRun(c)
       /\ snapshot' # snapshot
          => /\ state' = state
             /\ snapshot' = Some([running |-> lock, state |-> state])
             /\ Whole(state)
       /\ (outcome' # outcome /\ outcome'.kind = "already_running")
          => state' = state]_vars

\* status() is called while a second run is in flight, after a first run
\* that failed: it shows the lock held, the new start and the old end
C21_Witness ==
    /\ snapshot # None
    /\ Get(snapshot).running
    /\ Get(snapshot).state.last_error_at # None
    /\ Get(snapshot).state.last_started_at # None
    /\ Get(Get(snapshot).state.last_started_at)
          > Get(Get(snapshot).state.last_completed_at)
    /\ lock
    /\ state = Get(snapshot).state

\* C22: while a connectivity probe is awaited, the lock that guards the
\* shared backend slot is not held.
C22_NoLockAcrossProbe ==
    (lifespan_pc = "probing" \/ \E r \in Requests : dep_pc[r] = "probing")
    => ~ cache_backend_lock

\* C23: the available flag computed for a list of entries is true exactly
\* when some entry's status, in lower case, contains "available" and
\* neither "unavailable" nor "on loan"; for the empty list it is false.
C23_AvailableFlag ==
    hit_log # None
    => LET entries == Get(hit_log).entries
       IN /\ Get(hit_log).available
             = (\E i \in 1..Len(entries) :
                   /\ Contains(LowerStr(entries[i].status), str_available)
                   /\ ~ Contains(LowerStr(entries[i].status), str_unavailable)
                   /\ ~ Contains(LowerStr(entries[i].status), str_on_loan))
          /\ entries = <<>> => ~ Get(hit_log).available

\* a list whose only text with "available" in it is "Unavailable" beside
\* one that is on loan: not available
C23_Witness ==
    /\ hit_log # None
    /\ Len(Get(hit_log).entries) = 2
    /\ Get(hit_log).entries[1].status = <<"U","n","a","v","a","i","l","a","b","l","e">>
    /\ Get(hit_log).entries[2].status = <<"A","v","a","i","l","a","b","l","e",","," ","O","N"," ","L","O","A","N">>
    /\ ~ Get(hit_log).available

\* the library of entry e contains the preferred library name p, case
\* ignored
HitMatches(e, p) ==
    /\ p # None
    /\ Get(p) # <<>>
    /\ Contains(LowerStr(e.library), LowerStr(Get(p)))

\* the positions of the available entries
AvailableAt(entries) ==
    {i \in 1..Len(entries) :
        /\ Contains(LowerStr(entries[i].status), str_available)
        /\ ~ Contains(LowerStr(entries[i].status), str_unavailable)
        /\ ~ Contains(LowerStr(entries[i].status), str_on_loan)}

Least(S) == CHOOSE i \in S : \A j \in S : i <= j

\* entry f is preferred to entry e: it matches and e does not, or they
\* match alike and f has the greater status text
Better(e, f, p) ==
    \/ HitMatches(f, p) /\ ~ HitMatches(e, p)
    \/ /\ HitMatches(f, p) = HitMatches(e, p)
       /\ str_less(e.status, f.status)

\* C24 as stated: the hit is an available entry, one that matches the
\* preferred library if an available entry does, otherwise the first
\* available entry of the list; there is none exactly when no entry is
\* available.
C24_FirstAvailableOtherwise ==
    hit_log # None
    => LET entries == Get(hit_log).entries
           p == Get(hit_log).preferred_library_name
           hit == Get(hit_log).preferred_hit
           av == AvailableAt(entries)
       IN /\ (hit = None) = (av = {})
          /\ hit # None
             => /\ \E i \in av : entries[i] = Get(hit)
                /\ IF \E i \in av : HitMatches(entries[i], p)
                   THEN HitMatches(Get(hit), p)
                   ELSE Get(hit) = entries[Least(av)]

\* C24, amended: the hit is an available entry, one that matches the
\* preferred library if an available entry does; among the candidates it is
\* the one with the greatest status text, the first of the list among equals;
\* there is none exactly when no entry is available.
C24_GreatestStatusText ==
    hit_log # None
    => LET entries == Get(hit_log).entries
           p == Get(hit_log).preferred_library_name
           hit == Get(hit_log).preferred_hit
           av == AvailableAt(entries)
           best == {i \in av : \A j \in av : ~ Better(entries[i], entries[j], p)}
       IN /\ (hit = None) = (av = {})
          /\ hit # None
             => /\ Get(hit) = entries[Least(best)]
                /\ (\E i \in av : HitMatches(entries[i], p))
                   => HitMatches(Get(hit), p)

\* no available entry matches the preferred library and the second
\* available entry has the greater status text: it is the hit
C24_Witness ==
    /\ hit_log # None
    /\ Get(hit_log).preferred_library_name = Some(<<"K","a","l","l","i","o">>)
    /\ Get(hit_log).entries =
          << [library |-> <<"P","a","s","i","l","a">>, status |-> <<"A","V","A","I","L","A","B","L","E">>],
             [library |-> <<"O","o","d","i">>, status |-> <<"A","v","a","i","l","a","b","l","e">>] >>
    /\ Get(hit_log).preferred_hit = Some(Get(hit_log).entries[2])

\* an available entry matches the preferred library, in another case and
\* behind one that does not: it is the hit
C24_WitnessPreferred ==
    /\ hit_log # None
    /\ Get(hit_log).preferred_library_name = Some(<<"o","o","d","i">>)
    /\ Get(hit_log).entries =
          << [library |-> <<"P","a","s","i","l","a">>, status |-> <<"N","o","t"," ","a","v","a","i","l","a","b","l","e">>],
             [library |-> <<"O","O","D","I"," ","2">>, status |-> <<"A","V","A","I","L","A","B","L","E">>] >>
    /\ Get(hit_log).preferred_hit = Some(Get(hit_log).entries[2])

\* C25: while no run holds the lock and a run has completed, JobState is
\* that of the run completed last: after a success no error is recorded and
\* last_success_at is last_completed_at; after a failure last_error_at is
\* last_completed_at and last_success_at and last_result are those of the
\* last success before it; and last_completed_at is not earlier than
\* last_started_at.
C25_ReflectsLastCompletedRun ==
    [][/\ (~ lock' /\ state'.last_completed_at # None)
          => /\ Get(state'.last_completed_at) >= Get(state'.last_started_at)
             /\ \/ /\ state'.last_success_at = state'.last_completed_at
                   /\ state'.last_error_at = None
                   /\ state'.last_error_message = None
                   /\ state'.last_result # None
                \/ /\ state'.last_error_at = state'.last_completed_at
                   /\ state'.last_error_message # None
       /\ \A c \in Callers :
             (pc[c] # "idle" /\ pc'[c] = "idle" /\ outcome'.kind = "returned")
             => /\ state'.last_success_at = state'.last_completed_at
                /\ state'.last_completed_at = Some(now')
                /\ state'.last_error_at = None
                /\ state'.last_error_message = None
                /\ state'.last_result # None
       /\ \A c \in Callers :
             (pc[c] # "idle" /\ pc'[c] = "idle" /\ outcome'.kind = "raised")
             => /\ state'.last_error_at = state'.last_completed_at
                /\ state'.last_completed_at = Some(now')
                /\ state'.last_success_at = state.last_success_at
                /\ state'.last_result = state.last_result]_vars

\* the targets the run of caller c has loaded when it takes its last step
LoadedTargets(c) ==
    IF pc[c] = "loading"
    THEN _load_targets(books, recency, batch_size)
    ELSE run[c].targets

\* C26: the result of every run that returns counts every loaded target in
\* items_checked, the failed ones included, and has
\* notifications_created <= updates_persisted <= items_checked - len(errors).
C26_ResultCounts ==
    [][\A c \in Callers :
          (pc[c] # "idle" /\ pc'[c] = "idle" /\ outcome'.kind = "returned")
          => /\ state'.last_result # None
             /\ LET result == Get(state'.last_result)
                IN /\ result.items_checked = Len(LoadedTargets(c))
                   /\ result.notifications_created <= result.updates_persisted
                   /\ result.updates_persisted
                         <= result.items_checked - Len(result.errors)]_vars

\* a run of two targets has returned: one fetch failed, the other target
\* was written and notified
C26_Witness ==
    /\ outcome.kind = "returned"
    /\ state.last_result # None
    /\ Get(state.last_result).items_checked = 2
    /\ Len(Get(state.last_result).errors) = 1
    /\ Get(state.last_result).updates_persisted = 1
    /\ Get(state.last_result).notifications_created = 1

\* a run has returned after a row it had fetched was deleted: fewer rows
\* were written than targets were fetched
C26_WitnessSkipped ==
    /\ outcome.kind = "returned"
    /\ state.last_result # None
    /\ Get(state.last_result).errors = <<>>
    /\ Get(state.last_result).updates_persisted
          < Get(state.last_result).items_checked

\* C27: no step inserts a notification for, or changes is_available of, a
\* row that at that moment is not a wishlist row with notify_on_available
\* set, or that has been deleted.
C27_NoWriteToUntracked ==
    [][\A b \in BookIds :
          ~ Eligible(books, b)
          => /\ notifications'[b] = notifications[b]
             /\ (b \in DOMAIN books /\ b \in DOMAIN books')
                => books'[b].is_available = books[b].is_available]_vars

\* the part of C27 about deleted rows: no step inserts a notification for a
\* row that is no longer in the table
C27_NoNotificationForDeleted ==
    [][\A b \in BookIds :
          b \notin DOMAIN books => notifications'[b] = notifications[b]]_vars

\* C28: once shutdown_cache_backend has returned, the slot is empty and
\* every RedisCache a request stored in it has been closed, whatever the
\* requests that were in get_cache_backend did meanwhile.
C28_ShutdownLeavesSlotEmpty ==
    lifespan_pc = "stopped"
    => /\ cache_backend = None
       /\ \A i \in 1..Len(backends) :
             (backends[i].by \in Requests /\ backends[i].kind = "RedisCache")
             => i \in closed

\* the part of C28 without a call in flight: a RedisCache that is in the
\* slot when shutdown_cache_backend starts is closed when it returns
C28_SlotBackendClosed ==
    [][(lifespan_pc = "closing" /\ lifespan_pc' = "stopped")
       => /\ cache_backend' = None
          /\ Get(cache_backend) \in closed']_vars

\* the statuses after which a reservation takes no other
TerminalStatuses == {"returned", "cancelled"}

\* C29: an entry whose status has reached RETURNED or CANCELLED never has a
\* different status again, in the unified books table and in the legacy
\* reservations table, and a request that is answered with an error leaves
\* both tables as they were.
C29_TerminalStatusFinal ==
    [][/\ \A b \in DOMAIN books \cap DOMAIN books' :
             books[b].status \in {Some(st) : st \in TerminalStatuses}
             => books'[b].status = books[b].status
       /\ \A r \in DOMAIN reservations \cap DOMAIN reservations' :
             reservations[r].status \in TerminalStatuses
             => reservations'[r].status = reservations[r].status
       /\ (response' # None /\ Get(response').code >= 400)
          => (books' = books /\ reservations' = reservations)]_vars

\* the part of C29 the code keeps: a row of the legacy table, and a row of
\* the books table that is in the reserved list with a status before and
\* after the request, changes status only along the table of transitions,
\* and a rejected request changes nothing
C29_CheckedTransitionsOnly ==
    [][/\ \A b \in DOMAIN books \cap DOMAIN books' :
             (/\ books[b].list_type = "reserved"
              /\ books[b].status # None
              /\ books'[b].status # books[b].status)
             => /\ books'[b].status # None
                /\ Get(books'[b].status)
                      \in _get_valid_transitions(Get(books[b].status))
       /\ \A r \in DOMAIN reservations \cap DOMAIN reservations' :
             reservations'[r].status # reservations[r].status
             => reservations'[r].status
                   \in _get_valid_transitions(reservations[r].status)
       /\ (response' # None /\ Get(response').code >= 400)
          => (books' = books /\ reservations' = reservations)]_vars

\* C30: no request to the unified books API deletes a row of the reserved
\* list whose status is PICKED_UP or RETURNED.
C30_CompletedReservationKept ==
    [][\A b \in DOMAIN books :
          completed_reservation(books[b]) => b \in DOMAIN books']_vars

\* the part of C30 about remove_book: it answers 400 for such a row and
\* leaves it in place
C30_RemoveBookRejects ==
    [][\A b \in DOMAIN books :
          (/\ completed_reservation(books[b])
           /\ response' # None
           /\ Get(response').op = "remove_book"
           /\ Get(response').id = b)
          => /\ Get(response').code = 400
             /\ books' = books]_vars

====
